---- MODULE Spec2Model ----
(***************************************************************************)
(* Model of the blueprint tools of factorio-ai: the tile composer          *)
(* (tools/compose-blueprint/index.ts and the older                         *)
(* scripts/compose-blueprint.ts), the transformer                          *)
(* (scripts/transform-blueprint.ts) and the belt flow analyzer             *)
(* (scripts/blueprint-flow.ts).                                            *)
(*                                                                         *)
(* Coordinates are integers counting quarter tiles, so that the half-tile  *)
(* positions of a blueprint, the half sizes of its entities and the        *)
(* rounding done by Math.round, Math.floor, Math.ceil and toFixed(1) are   *)
(* all exact.  A `direction` is the raw blueprint field (0, 4, 8, 12 for   *)
(* north, east, south, west); NoDir stands for an absent field.            *)
(***************************************************************************)
EXTENDS Integers, Sequences, FiniteSets, TLC

VARIABLES
  tool,         \* which command-line tool this run executes
  pc,           \* position of the run inside the tool's main()
  entities,     \* the entity list read from the input file
  opts,         \* the parsed command-line options
  outEntities,  \* composer: every transformed entity of every grid cell
  deduped,      \* composer: outEntities after deduplication
  result,       \* the entity list the tool writes
  wires,        \* composer: the generated wire tuples
  report,       \* flow analyzer: the metrics it writes
  gstate,       \* geometry kernel: the entity a transform chain is applied to
  stderr,       \* what the run wrote with console.error and console.warn
  cstate        \* calculate-requirements: the cache file, the clock and the runs

vars ==
  <<tool, pc, entities, opts, outEntities, deduped, result, wires, report, gstate,
    stderr, cstate>>

-----------------------------------------------------------------------------
(* Arithmetic of the JavaScript runtime on quarter-tile integers.          *)

NoDir == -1

\* The x and y of an entity whose record has no `position`.
NoPos == -1000

Tiles(n) == n * 4

Abs(n) == IF n < 0 THEN -n ELSE n

Min2(a, b) == IF a < b THEN a ELSE b

Max2(a, b) == IF a > b THEN a ELSE b

\* Math.floor of a quarter-tile value, in tiles.
FloorTile(q) == q \div 4

\* Math.ceil of a quarter-tile value, in tiles.
CeilTile(q) == -((-q) \div 4)

\* Math.round of a quarter-tile value, in tiles (ties go towards +Infinity).
RoundTile(q) == (q + 2) \div 4

\* Number.prototype.toFixed(1) of a quarter-tile value, in tenths of a tile
\* (ties go away from zero).
ToFixed1(q) == IF q < 0 THEN -((Abs(q) * 10 + 2) \div 4) ELSE (q * 10 + 2) \div 4

SetMin(S) == CHOOSE m \in S : \A n \in S : m <= n

SetMax(S) == CHOOSE m \in S : \A n \in S : m >= n

Range(s) == {s[i] : i \in DOMAIN s}

RECURSIVE SeqSum(_)
SeqSum(s) == IF s = <<>> THEN 0 ELSE Head(s) + SeqSum(Tail(s))

RECURSIVE FlattenSeq(_)
FlattenSeq(ss) == IF ss = <<>> THEN <<>> ELSE Head(ss) \o FlattenSeq(Tail(ss))

-----------------------------------------------------------------------------
(* Geometry kernel.                                                        *)

\* direction field -> step 0..3 : Math.floor(direction / 4) & 3
DirStep(direction) == (direction \div 4) % 4

dirStepToVec(step) ==
  CASE step % 4 = 0 -> [x |-> 0, y |-> -1]
    [] step % 4 = 1 -> [x |-> 1, y |-> 0]
    [] step % 4 = 2 -> [x |-> 0, y |-> 1]
    [] OTHER        -> [x |-> -1, y |-> 0]

vecToDirStep(v) ==
  IF v.x = 0 /\ v.y = -1 THEN 0
  ELSE IF v.x = 1 /\ v.y = 0 THEN 1
  ELSE IF v.x = 0 /\ v.y = 1 THEN 2
  ELSE 3

\* One pass of the loop body of rotatePos in tools/compose-blueprint and of
\* rotatePosClockwise in the transformer: (x, y) -> (-y, x).
RotStepCW(p) == [x |-> -p.y, y |-> p.x]

\* One pass of the loop body of rotatePos in scripts/compose-blueprint.ts:
\* (x, y) -> (y, -x).
RotStepLegacy(p) == [x |-> p.y, y |-> -p.x]

RECURSIVE RepeatCW(_, _)
RepeatCW(p, n) == IF n = 0 THEN p ELSE RepeatCW(RotStepCW(p), n - 1)

RECURSIVE RepeatLegacy(_, _)
RepeatLegacy(p, n) == IF n = 0 THEN p ELSE RepeatLegacy(RotStepLegacy(p), n - 1)

\* rotatePos with a loop bound of (rot & 1).
rotatePosOneBitMask(x, y, rot) == RepeatCW([x |-> x, y |-> y], rot % 2)

\* rotatePos of tools/compose-blueprint/index.ts: the loop runs (rot & 3) times.
rotatePos(x, y, rot) == RepeatCW([x |-> x, y |-> y], rot % 4)

\* rotatePosClockwise of scripts/transform-blueprint.ts.
rotatePosClockwise(x, y, rot) == RepeatCW([x |-> x, y |-> y], rot % 4)

\* rotatePos of scripts/compose-blueprint.ts.
rotatePosLegacy(x, y, rot) == RepeatLegacy([x |-> x, y |-> y], rot % 4)

\* snapToHalf: Math.round(n * 2) / 2
snapToHalf(q) == 2 * ((q + 1) \div 2)

\* flipEntity that reflects the position and leaves the direction alone.
flipEntityKeepDirection(ent, fx, fy) ==
  [ent EXCEPT !.x = IF fx THEN -ent.x ELSE ent.x,
              !.y = IF fy THEN -ent.y ELSE ent.y]

\* flipEntity (nested in applyTransform of the composer, top level in the
\* transformer).
flipEntity(ent, fx, fy) ==
  LET vec == dirStepToVec(DirStep(ent.direction))
      vx  == IF fx THEN -vec.x ELSE vec.x
      vy  == IF fy THEN -vec.y ELSE vec.y
  IN  [ent EXCEPT !.x = IF fx THEN -ent.x ELSE ent.x,
                  !.y = IF fy THEN -ent.y ELSE ent.y,
                  !.direction = IF ent.direction = NoDir THEN NoDir
                                ELSE vecToDirStep([x |-> vx, y |-> vy]) * 4]

\* rotateEntity (composer and transformer).
rotateEntity(ent, rotSteps) ==
  LET rpos == rotatePos(ent.x, ent.y, rotSteps)
      vec  == dirStepToVec(DirStep(ent.direction))
      rvec == rotatePos(vec.x, vec.y, rotSteps)
  IN  [ent EXCEPT !.x = rpos.x,
                  !.y = rpos.y,
                  !.direction = IF ent.direction = NoDir THEN NoDir
                                ELSE vecToDirStep(rvec) * 4]

\* The end of applyTransform: translate by (tx, ty) tiles and snap.
TranslateSnapped(working, tx, ty) ==
  [working EXCEPT !.x = snapToHalf(working.x + Tiles(tx)),
                  !.y = snapToHalf(working.y + Tiles(ty))]

\* applyTransform of tools/compose-blueprint/index.ts: flip, rotate,
\* translate by (tx, ty) tiles, snap to half tiles.
applyTransform(e, flipX, flipY, rot, tx, ty) ==
  TranslateSnapped(rotateEntity(flipEntity(e, flipX, flipY), rot), tx, ty)

\* applyTransform of scripts/compose-blueprint.ts.
applyTransformLegacy(e, flipX, flipY, rot, tx, ty) ==
  LET x   == IF flipX THEN -e.x ELSE e.x
      y   == IF flipY THEN -e.y ELSE e.y
      r   == rotatePosLegacy(x, y, rot)
      vec == dirStepToVec(DirStep(e.direction))
      vx  == IF flipX THEN -vec.x ELSE vec.x
      vy  == IF flipY THEN -vec.y ELSE vec.y
      rv  == rotatePosLegacy(vx, vy, rot)
  IN  [e EXCEPT !.x = snapToHalf(r.x + Tiles(tx)),
                !.y = snapToHalf(r.y + Tiles(ty)),
                !.direction = IF e.direction = NoDir THEN NoDir
                              ELSE vecToDirStep(rv) * 4]

-----------------------------------------------------------------------------
(* Tile composer, tools/compose-blueprint/index.ts.                        *)

\* SIZE_MAP[name] ?? [1, 1]
SIZE_MAP(name) ==
  CASE name = "boiler" -> <<3, 2>>
    [] name = "steam-engine" -> <<3, 5>>
    [] name \in {"stone-furnace", "steel-furnace", "electric-furnace"} -> <<2, 2>>
    [] name \in {"assembling-machine-1", "assembling-machine-2",
                 "assembling-machine-3"} -> <<3, 3>>
    [] OTHER -> <<1, 1>>

\* left = r.x - ew / 2, right = r.x + ew / 2, top and bottom likewise.
HalfExtent(p, ew, eh) == <<p.x - 2 * ew, p.x + 2 * ew, p.y - 2 * eh, p.y + 2 * eh>>

\* The continuous extent of one entity inside footprintBounds (loop body):
\* <<left, right, top, bottom>>.
EntityExtent(e, rot, flipX, flipY) ==
  LET wh       == SIZE_MAP(e.name)
      dir      == IF e.direction = NoDir THEN 0 ELSE (e.direction \div 4) % 4
      swap     == ((dir + rot) % 4) % 2 = 1
      ew       == IF swap THEN wh[2] ELSE wh[1]
      eh       == IF swap THEN wh[1] ELSE wh[2]
  IN  HalfExtent(rotatePos(IF flipX THEN -e.x ELSE e.x, IF flipY THEN -e.y ELSE e.y, rot),
                 ew, eh)

\* minX = Math.min(minX, left), and so on: the extent so far joined with x.
JoinExtent(acc, x) ==
  IF acc = <<>> THEN x
  ELSE <<Min2(acc[1], x[1]), Max2(acc[2], x[2]), Min2(acc[3], x[3]), Max2(acc[4], x[4])>>

RECURSIVE ExtentFrom(_, _, _, _, _, _)
ExtentFrom(ents, i, rot, flipX, flipY, acc) ==
  IF i > Len(ents) THEN acc
  ELSE ExtentFrom(ents, i + 1, rot, flipX, flipY,
                  JoinExtent(acc, EntityExtent(ents[i], rot, flipX, flipY)))

\* The integer tile bounds of the continuous extent m.
TileBounds(m) ==
  LET xStart == FloorTile(m[1])
      yStart == FloorTile(m[3])
      xEnd   == CeilTile(m[2]) - 1
      yEnd   == CeilTile(m[4]) - 1
  IN  [xStart |-> xStart, yStart |-> yStart, xEnd |-> xEnd, yEnd |-> yEnd,
       width |-> xEnd - xStart + 1, height |-> yEnd - yStart + 1]

\* footprintBounds: integer tile bounds of a non-empty entity list.
footprintBounds(ents, rot, flipX, flipY) ==
  TileBounds(ExtentFrom(ents, 1, rot, flipX, flipY, <<>>))

\* The entities moved so that the footprint fb starts at tile (0, 0).
ShiftToOrigin(unitEntities, fb) ==
  [i \in DOMAIN unitEntities |->
     [unitEntities[i] EXCEPT !.x = @ - Tiles(fb.xStart), !.y = @ - Tiles(fb.yStart)]]

\* main, "normalize so unit starts at 0,0 (optional)".
Normalize(unitEntities, normalize) ==
  IF normalize
  THEN ShiftToOrigin(unitEntities, footprintBounds(unitEntities, 0, FALSE, FALSE))
  ELSE unitEntities

\* stepX / stepY: Math.max(1, Math.ceil(unitSize + spacing - (share ? 1 : 0)))
TileStep(unitSize, spacing, share) ==
  Max2(1, CeilTile(Tiles(unitSize) + spacing - (IF share THEN Tiles(1) ELSE 0)))

\* The effective transform of grid row r (body of the r/c loops).
TileTransform(o, r) ==
  LET flipY1 == IF r \in o.flipRows THEN ~o.flipY ELSE o.flipY
      rot1   == IF r \in DOMAIN o.rotateRows
                THEN (o.rot + o.rotateRows[r]) % 4 ELSE o.rot
      flipY2 == IF o.rotateBottom /\ r >= o.rows \div 2 THEN ~flipY1 ELSE flipY1
  IN  [rot |-> rot1, flipX |-> o.flipX, flipY |-> flipY2]

\* The loop over normEntities for one cell: the transform t, the translation
\* by the cell offset and the alignment of tileFoot to the base footprint.
PlaceCell(normEntities, t, x0, y0, tileFoot) ==
  [i \in DOMAIN normEntities |->
     applyTransform(normEntities[i], t.flipX, t.flipY, t.rot,
                    x0 - tileFoot.xStart, y0 - tileFoot.yStart)]

\* The entities pushed to outEntities for grid cell (r, c), given the base
\* footprint and the steps computed before the loops.
ComposeCell(normEntities, o, baseFoot, stepX, stepY, r, c) ==
  LET t == TileTransform(o, r)
  IN  PlaceCell(normEntities, t, c * stepX + baseFoot.xStart, r * stepY + baseFoot.yStart,
                footprintBounds(normEntities, t.rot, t.flipX, t.flipY))

RECURSIVE CellsFrom(_, _, _, _, _, _, _)
CellsFrom(normEntities, o, baseFoot, stepX, stepY, k, cells) ==
  IF k >= cells THEN <<>>
  ELSE ComposeCell(normEntities, o, baseFoot, stepX, stepY, k \div o.cols, k % o.cols)
       \o CellsFrom(normEntities, o, baseFoot, stepX, stepY, k + 1, cells)

\* The r/c loops with the steps computed from the unit's footprint; no cell
\* when a loop bound is not positive.
GridCells(normEntities, o, unitFoot) ==
  CellsFrom(normEntities, o, unitFoot,
            TileStep(unitFoot.width, o.spacingX, o.shareX),
            TileStep(unitFoot.height, o.spacingY, o.shareY),
            0, IF o.rows <= 0 \/ o.cols <= 0 THEN 0 ELSE o.rows * o.cols)

\* main from the unit footprint on.
GridFrom(normEntities, o) ==
  GridCells(normEntities, o, footprintBounds(normEntities, o.rot, o.flipX, o.flipY))

\* A grid that always has one row and one column at least.
ComposeGridAtLeastOneCell(unitEntities, o) ==
  GridFrom(Normalize(unitEntities, o.normalize),
           [o EXCEPT !.rows = Max2(1, o.rows), !.cols = Max2(1, o.cols)])

\* main, from normalization to the end of the r/c loops: all cells in
\* row-major order.
ComposeGrid(unitEntities, o) == GridFrom(Normalize(unitEntities, o.normalize), o)

\* A key that leaves the position out.
DedupKeyNoPosition(e) == <<e.name, e.direction>>

\* The deduplication key `${name}@${px},${py}:dir=${dirVal}`.
DedupKey(e) == <<e.name, ToFixed1(e.x), ToFixed1(e.y), e.direction>>

RECURSIVE DedupFrom(_, _, _)
DedupFrom(ents, i, seen) ==
  IF i > Len(ents) THEN <<>>
  ELSE IF DedupKey(ents[i]) \in seen THEN DedupFrom(ents, i + 1, seen)
       ELSE <<ents[i]>> \o DedupFrom(ents, i + 1, seen \cup {DedupKey(ents[i])})

\* main, "deduplicate overlapping entities": the first occurrence wins.
Dedup(ents) == DedupFrom(ents, 1, {})

\* e.name.includes('furnace') || e.name.includes('assembling-machine')
IsProducer(name) ==
  name \in {"stone-furnace", "steel-furnace", "electric-furnace",
            "assembling-machine-1", "assembling-machine-2", "assembling-machine-3"}

\* An adjacency test that stops short of a whole tile.
AdjacentBelowOneTile(e, ins) ==
  /\ Abs(e.x - ins.x) * 10 < 40
  /\ Abs(e.y - ins.y) * 10 < 40

\* Math.abs(e.position.x - ix) <= 1.1 && Math.abs(e.position.y - iy) <= 1.1
Adjacent(e, ins) ==
  /\ Abs(e.x - ins.x) * 10 <= 44
  /\ Abs(e.y - ins.y) * 10 <= 44

\* Array.prototype.find over the producers next to ins: the index of the
\* first match, 0 when there is none.
FindProducer(ents, ins) ==
  LET hits == {i \in DOMAIN ents : IsProducer(ents[i].name) /\ Adjacent(ents[i], ins)}
  IN  IF hits = {} THEN 0 ELSE SetMin(hits)

\* The direction given to ins when furn was found next to it.
DirectionToward(ins, furn) ==
  vecToDirStep([x |-> RoundTile(furn.x - ins.x), y |-> RoundTile(furn.y - ins.y)]) * 4

\* main of the composer, "Ensure inserters face the expected drop target":
\* every inserter with a producer next to it is pointed at that producer.
RepairComposer(ents) ==
  [i \in DOMAIN ents |->
     IF ents[i].name = "inserter" /\ FindProducer(ents, ents[i]) # 0
     THEN [ents[i] EXCEPT !.direction =
             DirectionToward(ents[i], ents[FindProducer(ents, ents[i])])]
     ELSE ents[i]]

IsPole(name) ==
  name \in {"small-electric-pole", "medium-electric-pole", "big-electric-pole"}

\* sameRow / sameCol of the wiring loop, sorted by distance: the index of the
\* nearest pole right of (below) pole p within 7 tiles, 0 when there is none.
\* Array.prototype.sort is stable, so the earliest of equally near poles wins.
NearestRight(ents, p) ==
  LET cand == {q \in DOMAIN ents : /\ IsPole(ents[q].name)
                                   /\ ents[q].y = ents[p].y
                                   /\ ents[q].x > ents[p].x
                                   /\ ents[q].x - ents[p].x <= Tiles(7)}
      near == {q \in cand : \A q2 \in cand : ents[q].x <= ents[q2].x}
  IN  IF cand = {} THEN 0 ELSE SetMin(near)

NearestBelow(ents, p) ==
  LET cand == {q \in DOMAIN ents : /\ IsPole(ents[q].name)
                                   /\ ents[q].x = ents[p].x
                                   /\ ents[q].y > ents[p].y
                                   /\ ents[q].y - ents[p].y <= Tiles(7)}
      near == {q \in cand : \A q2 \in cand : ents[q].y <= ents[q2].y}
  IN  IF cand = {} THEN 0 ELSE SetMin(near)

\* addPair: record the pair once, as the tuple [a, 5, b, 5].
addPair(ws, a, b) ==
  IF \E i \in DOMAIN ws : {ws[i][1], ws[i][3]} = {a, b} THEN ws
  ELSE Append(ws, <<a, 5, b, 5>>)

RECURSIVE WireFrom(_, _, _)
WireFrom(ents, p, ws) ==
  IF p > Len(ents) THEN ws
  ELSE IF ~IsPole(ents[p].name) THEN WireFrom(ents, p + 1, ws)
  ELSE LET right == NearestRight(ents, p)
           ws1   == IF right = 0 THEN ws ELSE addPair(ws, p, right)
           below == NearestBelow(ents, p)
           ws2   == IF below = 0 THEN ws1 ELSE addPair(ws1, p, below)
       IN  WireFrom(ents, p + 1, ws2)

\* main, "Connect power poles in a square/grid pattern".  An entity's
\* entity_number is its index in the output list.
WirePoles(ents) == WireFrom(ents, 1, <<>>)

\* The entity list the composer writes for a unit and its options.
Compose(unitEntities, o) == RepairComposer(Dedup(ComposeGrid(unitEntities, o)))

-----------------------------------------------------------------------------
(* Older composer, scripts/compose-blueprint.ts.                           *)

\* The loop body of footprintBounds in scripts/compose-blueprint.ts: the
\* text of tools/compose-blueprint, calling the rotatePos of this file.
EntityExtentLegacy(e, rot, flipX, flipY) ==
  LET wh       == SIZE_MAP(e.name)
      dir      == IF e.direction = NoDir THEN 0 ELSE (e.direction \div 4) % 4
      swap     == ((dir + rot) % 4) % 2 = 1
      ew       == IF swap THEN wh[2] ELSE wh[1]
      eh       == IF swap THEN wh[1] ELSE wh[2]
  IN  HalfExtent(rotatePosLegacy(IF flipX THEN -e.x ELSE e.x,
                                 IF flipY THEN -e.y ELSE e.y, rot), ew, eh)

RECURSIVE ExtentFromLegacy(_, _, _, _, _, _)
ExtentFromLegacy(ents, i, rot, flipX, flipY, acc) ==
  IF i > Len(ents) THEN acc
  ELSE ExtentFromLegacy(ents, i + 1, rot, flipX, flipY,
                        JoinExtent(acc, EntityExtentLegacy(ents[i], rot, flipX, flipY)))

footprintBoundsLegacy(ents, rot, flipX, flipY) ==
  TileBounds(ExtentFromLegacy(ents, 1, rot, flipX, flipY, <<>>))

NormalizeLegacy(unitEntities, normalize) ==
  IF normalize
  THEN ShiftToOrigin(unitEntities, footprintBoundsLegacy(unitEntities, 0, FALSE, FALSE))
  ELSE unitEntities

\* The effective transform of grid row r: --rotate-bottom turns the lower
\* half by 180 degrees and mirrors it.
TileTransformLegacy(o, r) ==
  IF o.rotateBottom /\ r >= o.rows \div 2
  THEN [rot |-> (o.rot + 2) % 4, flipX |-> ~o.flipX, flipY |-> o.flipY]
  ELSE [rot |-> o.rot, flipX |-> o.flipX, flipY |-> o.flipY]

PlaceCellLegacy(normEntities, t, x0, y0, tileFoot) ==
  [i \in DOMAIN normEntities |->
     applyTransformLegacy(normEntities[i], t.flipX, t.flipY, t.rot,
                          x0 - tileFoot.xStart, y0 - tileFoot.yStart)]

ComposeCellLegacy(normEntities, o, baseFoot, stepX, stepY, r, c) ==
  LET t == TileTransformLegacy(o, r)
  IN  PlaceCellLegacy(normEntities, t, c * stepX + baseFoot.xStart,
                      r * stepY + baseFoot.yStart,
                      footprintBoundsLegacy(normEntities, t.rot, t.flipX, t.flipY))

RECURSIVE CellsFromLegacy(_, _, _, _, _, _, _)
CellsFromLegacy(normEntities, o, baseFoot, stepX, stepY, k, cells) ==
  IF k >= cells THEN <<>>
  ELSE ComposeCellLegacy(normEntities, o, baseFoot, stepX, stepY,
                         k \div o.cols, k % o.cols)
       \o CellsFromLegacy(normEntities, o, baseFoot, stepX, stepY, k + 1, cells)

GridCellsLegacy(normEntities, o, unitFoot) ==
  CellsFromLegacy(normEntities, o, unitFoot,
                  TileStep(unitFoot.width, o.spacingX, o.shareX),
                  TileStep(unitFoot.height, o.spacingY, o.shareY),
                  0, IF o.rows <= 0 \/ o.cols <= 0 THEN 0 ELSE o.rows * o.cols)

GridFromLegacy(normEntities, o) ==
  GridCellsLegacy(normEntities, o,
                  footprintBoundsLegacy(normEntities, o.rot, o.flipX, o.flipY))

ComposeGridLegacy(unitEntities, o) ==
  GridFromLegacy(NormalizeLegacy(unitEntities, o.normalize), o)

\* A number of the output JSON in the unit of the coordinates (quarters):
\* the wires of this file mix entity numbers with coordinates.
Num(n) == 4 * n

\* Number(v.toFixed(1)) of a coordinate: the tenths, read back as a number.
\* On the half-tile grid the tenths are 0 or 5 and the value is kept.
NumberToFixed1(q) ==
  LET t == ToFixed1(q)
  IN  IF (t * 4) % 10 = 0 THEN (t * 4) \div 10 ELSE q

\* "poles" of the second wiring pass: the small electric poles only, as
\* coordinate pairs, in the order of the entity list.
SmallPoles(ents) ==
  LET ps == SelectSeq(ents, LAMBDA e : e.name = "small-electric-pole")
  IN  [i \in DOMAIN ps |-> [x |-> NumberToFixed1(ps[i].x), y |-> NumberToFixed1(ps[i].y)]]

\* The keys of byX (byY) in insertion order.
RECURSIVE GroupKeys(_, _, _, _)
GroupKeys(ps, axis, i, keys) ==
  IF i > Len(ps) THEN keys
  ELSE LET k == IF axis = "x" THEN ToFixed1(ps[i].x) ELSE ToFixed1(ps[i].y)
       IN  GroupKeys(ps, axis, i + 1,
                     IF k \in Range(keys) THEN keys ELSE Append(keys, k))

\* arr.sort((a,b) => a.y - b.y), or by x: a stable sort.
RECURSIVE SortPoles(_, _)
SortPoles(arr, axis) ==
  IF arr = <<>> THEN <<>>
  ELSE LET v(p) == IF axis = "x" THEN p.x ELSE p.y
           m    == SetMin({v(arr[i]) : i \in DOMAIN arr})
           k    == SetMin({i \in DOMAIN arr : v(arr[i]) = m})
       IN  <<arr[k]>> \o SortPoles(SubSeq(arr, 1, k - 1) \o SubSeq(arr, k + 1, Len(arr)), axis)

\* The loop over one group: neighbours of the sorted group at most 7 tiles
\* apart are wired by their coordinates unless the key is in wireSet.
RECURSIVE WireGroup(_, _, _, _)
WireGroup(arr, axis, i, ws) ==
  IF i + 1 > Len(arr) THEN ws
  ELSE LET a    == arr[i]
           b    == arr[i + 1]
           dist == IF axis = "x" THEN Abs(b.x - a.x) ELSE Abs(b.y - a.y)
           key  == <<a.x, a.y, b.x, b.y>>
       IN  WireGroup(arr, axis, i + 1,
                     IF dist <= Tiles(7) /\ key \notin Range(ws)
                     THEN Append(ws, key) ELSE ws)

\* "group by X and connect vertical neighbors" (groupAxis "x", sorted by y)
\* and "group by Y and connect horizontal neighbors".
RECURSIVE WireGroups(_, _, _, _, _)
WireGroups(ps, groupAxis, keys, g, ws) ==
  IF g > Len(keys) THEN ws
  ELSE LET member(p) == keys[g] = (IF groupAxis = "x" THEN ToFixed1(p.x)
                                   ELSE ToFixed1(p.y))
           sortAxis  == IF groupAxis = "x" THEN "y" ELSE "x"
           arr       == SortPoles(SelectSeq(ps, member), sortAxis)
       IN  WireGroups(ps, groupAxis, keys, g + 1, WireGroup(arr, sortAxis, 1, ws))

\* main, "Auto-connect nearby power poles (small-electric-pole)": the wires
\* of the first pass followed by the new coordinate wires.
WirePolesLegacy(ents) ==
  LET first         == WirePoles(ents)
      existingWires == [k \in DOMAIN first |-> [i \in 1..4 |-> Num(first[k][i])]]
      poles         == SmallPoles(ents)
      afterX        == WireGroups(poles, "x", GroupKeys(poles, "x", 1, <<>>), 1,
                                  existingWires)
  IN  WireGroups(poles, "y", GroupKeys(poles, "y", 1, <<>>), 1, afterX)

-----------------------------------------------------------------------------
(* Transformer, scripts/transform-blueprint.ts.                            *)

\* rotateEntity of the transformer (it rotates with rotatePosClockwise).
rotateEntityT(ent, rotSteps) ==
  LET rpos == rotatePosClockwise(ent.x, ent.y, rotSteps)
      vec  == dirStepToVec(DirStep(ent.direction))
      rvec == rotatePosClockwise(vec.x, vec.y, rotSteps)
  IN  [ent EXCEPT !.x = rpos.x,
                  !.y = rpos.y,
                  !.direction = IF ent.direction = NoDir THEN NoDir
                                ELSE vecToDirStep(rvec) * 4]

\* main, the loop over the input entities: flip, rotate, snap.
TransformEntity(e, rot, fx, fy) ==
  LET cur1 == IF fx \/ fy THEN flipEntity(e, fx, fy) ELSE e
      cur2 == IF rot # 0 THEN rotateEntityT(cur1, rot) ELSE cur1
  IN  [cur2 EXCEPT !.x = snapToHalf(cur2.x), !.y = snapToHalf(cur2.y)]

\* main of the transformer, "If inserters lack a direction, infer it".
RepairTransformer(ents) ==
  [i \in DOMAIN ents |->
     IF /\ ents[i].name = "inserter"
        /\ ents[i].direction = NoDir
        /\ FindProducer(ents, ents[i]) # 0
     THEN [ents[i] EXCEPT !.direction =
             DirectionToward(ents[i], ents[FindProducer(ents, ents[i])])]
     ELSE ents[i]]

\* The entity list the transformer writes.
Transform(ents, o) ==
  RepairTransformer([i \in DOMAIN ents |-> TransformEntity(ents[i], o.rot, o.flipX, o.flipY)])

-----------------------------------------------------------------------------
(* Inputs of a run of the composer or the transformer.                     *)

\* Tile columns 0..MaxX an input entity may be centred on.
MaxX == 2

\* Most grid cells (rows x cols) asked of the composer.
MaxCells == 2

\* The kinds of entity of the input blueprints: name and direction field.
Kinds ==
  { <<"inserter", NoDir>>, <<"inserter", 4>>,
    <<"stone-furnace", NoDir>>, <<"transport-belt", 4>> }

Empty == <<>>

\* An entity centred on tile column col of the blueprint's row of tiles.
Entity(kind, col) ==
  [name |-> kind[1], x |-> Tiles(col) + 2, y |-> 2, direction |-> kind[2]]

RECURSIVE ListFrom(_, _)
ListFrom(layout, col) ==
  IF col > MaxX THEN <<>>
  ELSE (IF layout[col] = Empty THEN <<>> ELSE <<Entity(layout[col], col)>>)
       \o ListFrom(layout, col + 1)

Reverse(s) == [i \in DOMAIN s |-> s[Len(s) + 1 - i]]

\* Blueprints: each tile column holds at most one entity, and the file lists
\* the entities from left to right or from right to left.
Units ==
  LET lists == {ListFrom(layout, 0) : layout \in [0..MaxX -> Kinds \cup {Empty}]}
  IN  {u \in lists \cup {Reverse(v) : v \in lists} : u # <<>>}

\* The (rows, cols) grids asked of the composer.
Grids == {g \in (1..MaxCells) \X (1..MaxCells) : g[1] * g[2] <= MaxCells}

\* main, the argv loop of the composer: the options record it leaves behind.
\* The options not listed keep their defaults.
ComposerOpts ==
  { [cols |-> g[2], rows |-> g[1],
     spacingX |-> sx, spacingY |-> Tiles(1), rot |-> rot,
     flipX |-> fx, flipY |-> FALSE, normalize |-> TRUE,
     shareX |-> shx, shareY |-> FALSE, rotateBottom |-> FALSE,
     flipRows |-> {}, rotateRows |-> <<>>] :
    g \in Grids, sx \in {0, Tiles(1)}, rot \in 0..3, fx \in BOOLEAN, shx \in BOOLEAN }

\* main, the argv loop of the transformer.
TransformerOpts ==
  { [rot |-> r, flipX |-> fx, flipY |-> fy] : r \in 0..3, fx \in BOOLEAN, fy \in BOOLEAN }

-----------------------------------------------------------------------------
(* The runs.                                                               *)

Idle == <<>>

InitCompose ==
  /\ tool = "compose-blueprint"
  /\ pc = "start"
  /\ opts \in ComposerOpts
  /\ entities \in Units
  /\ outEntities = <<>> /\ deduped = <<>> /\ result = <<>> /\ wires = <<>>
  /\ report = Idle /\ gstate = Idle /\ stderr = <<>> /\ cstate = Idle

InitTransform ==
  /\ tool = "transform-blueprint"
  /\ pc = "start"
  /\ opts \in TransformerOpts
  /\ entities \in Units
  /\ outEntities = <<>> /\ deduped = <<>> /\ result = <<>> /\ wires = <<>>
  /\ report = Idle /\ gstate = Idle /\ stderr = <<>> /\ cstate = Idle

\* An entity record without a position.
Malformed(e) == e.x = NoPos \/ e.y = NoPos

WithoutMalformed(ents) == SelectSeq(ents, LAMBDA e : ~Malformed(e))

\* The blueprints of two entities with one more record, a belt or an inserter
\* that has no position, put first, between them or last.
MalformedUnits ==
  LET bad(name) == [name |-> name, x |-> NoPos, y |-> NoPos, direction |-> 4]
  IN  { SubSeq(u, 1, k) \o <<bad(name)>> \o SubSeq(u, k + 1, Len(u)) :
          u \in {v \in Units : Len(v) = 2}, k \in 0..2,
          name \in {"transport-belt", "inserter"} }

\* The composer run on such a blueprint, with one grid per run and the other
\* options at their defaults.
InitComposeMalformed ==
  /\ tool = "compose-blueprint"
  /\ pc = "start"
  /\ opts \in {o \in ComposerOpts :
                 o.spacingX = Tiles(1) /\ o.rot = 0 /\ ~o.flipX /\ ~o.shareX}
  /\ entities \in MalformedUnits
  /\ outEntities = <<>> /\ deduped = <<>> /\ result = <<>> /\ wires = <<>>
  /\ report = Idle /\ gstate = Idle /\ stderr = <<>> /\ cstate = Idle

\* Blueprints with electric poles: each tile column holds a small pole, a
\* medium pole or nothing, and one pole at least is present.
PoleKinds == { <<"small-electric-pole", NoDir>>, <<"medium-electric-pole", NoDir>> }

PoleUnits ==
  LET lists == {ListFrom(layout, 0) : layout \in [0..MaxX -> PoleKinds \cup {Empty}]}
  IN  {u \in lists \cup {Reverse(v) : v \in lists} :
         \E i \in DOMAIN u : IsPole(u[i].name)}

\* The options of the runs on blueprints with poles: no flip, no shared
\* edge, --rotate 0 or 1.
PoleOpts == {o \in ComposerOpts : ~o.flipX /\ ~o.shareX /\ o.rot \in {0, 1}}

\* The composer run on a blueprint with poles.
InitComposePoles ==
  /\ tool = "compose-blueprint"
  /\ pc = "start"
  /\ opts \in PoleOpts
  /\ entities \in PoleUnits
  /\ outEntities = <<>> /\ deduped = <<>> /\ result = <<>> /\ wires = <<>>
  /\ report = Idle /\ gstate = Idle /\ stderr = <<>> /\ cstate = Idle

\* --rows and --cols of which one is zero or negative.
DegenerateGrids == {<<0, 1>>, <<1, 0>>, <<0, 0>>, <<-1, 2>>, <<2, -1>>}

DegenerateOpts ==
  {[o EXCEPT !.rows = g[1], !.cols = g[2]] :
     o \in {q \in PoleOpts : q.rows = 1 /\ q.cols = 1}, g \in DegenerateGrids}

\* The composer run with an empty grid.
InitComposeDegenerate ==
  /\ tool = "compose-blueprint"
  /\ pc = "start"
  /\ opts \in DegenerateOpts
  /\ entities \in PoleUnits
  /\ outEntities = <<>> /\ deduped = <<>> /\ result = <<>> /\ wires = <<>>
  /\ report = Idle /\ gstate = Idle /\ stderr = <<>> /\ cstate = Idle

\* The older composer run on a blueprint with poles.
InitComposePolesLegacy ==
  /\ tool = "scripts/compose-blueprint"
  /\ pc = "start"
  /\ opts \in PoleOpts
  /\ entities \in PoleUnits
  /\ outEntities = <<>> /\ deduped = <<>> /\ result = <<>> /\ wires = <<>>
  /\ report = Idle /\ gstate = Idle /\ stderr = <<>> /\ cstate = Idle

Init ==
  \/ InitCompose
  \/ InitComposeMalformed
  \/ InitComposePoles
  \/ InitComposePolesLegacy
  \/ InitComposeDegenerate
  \/ InitTransform

\* main of tools/compose-blueprint/index.ts: tile the unit, deduplicate,
\* repair the inserter directions, number the entities and wire the poles.
ComposeRun ==
  /\ tool = "compose-blueprint" /\ pc = "start"
  /\ \A i \in DOMAIN entities : ~Malformed(entities[i])
  /\ outEntities' = ComposeGrid(entities, opts)
  /\ deduped' = Dedup(outEntities')
  /\ result' = RepairComposer(deduped')
  /\ wires' = WirePoles(result')
  /\ pc' = "done"
  /\ UNCHANGED <<tool, entities, opts, report, gstate, stderr, cstate>>

\* main of tools/compose-blueprint/index.ts when a record has no position:
\* footprintBounds reads e.position.x of undefined, the TypeError reaches
\* main().catch, which prints it and exits with status 1; nothing is written.
ComposeFail ==
  /\ tool = "compose-blueprint" /\ pc = "start"
  /\ \E i \in DOMAIN entities : Malformed(entities[i])
  /\ stderr' = Append(stderr, [kind |-> "error", text |-> "TypeError"])
  /\ pc' = "failed"
  /\ UNCHANGED <<tool, entities, opts, outEntities, deduped, result, wires, report,
                 gstate, cstate>>

\* main of scripts/compose-blueprint.ts: the grid, the deduplication, the
\* direction repair and the two wiring passes.
ComposeRunLegacy ==
  /\ tool = "scripts/compose-blueprint" /\ pc = "start"
  /\ \A i \in DOMAIN entities : ~Malformed(entities[i])
  /\ outEntities' = ComposeGridLegacy(entities, opts)
  /\ deduped' = Dedup(outEntities')
  /\ result' = RepairComposer(deduped')
  /\ wires' = WirePolesLegacy(result')
  /\ pc' = "done"
  /\ UNCHANGED <<tool, entities, opts, report, gstate, stderr, cstate>>

\* main of scripts/transform-blueprint.ts: transform every entity, then infer
\* the missing inserter directions.
TransformRun ==
  /\ tool = "transform-blueprint" /\ pc = "start"
  /\ outEntities' = [i \in DOMAIN entities |->
                       TransformEntity(entities[i], opts.rot, opts.flipX, opts.flipY)]
  /\ result' = RepairTransformer(outEntities')
  /\ pc' = "done"
  /\ UNCHANGED <<tool, entities, opts, deduped, wires, report, gstate, stderr, cstate>>

Next ==
  \/ ComposeRun
  \/ ComposeFail
  \/ ComposeRunLegacy
  \/ TransformRun

Spec == Init /\ [][Next]_vars

-----------------------------------------------------------------------------
(* Properties of the composer and the transformer.                         *)

ComposeDone == tool = "compose-blueprint" /\ pc = "done"

TransformDone == tool = "transform-blueprint" /\ pc = "done"

\* The identity of an entity for deduplication: (type, position, orientation).
Tuple(e) == <<e.name, e.x, e.y, e.direction>>

TupleSet(ents) == {Tuple(ents[i]) : i \in DOMAIN ents}

\* Every reordering of an entity list.
Orderings(ents) ==
  {[i \in DOMAIN ents |-> ents[f[i]]] : f \in Permutations(DOMAIN ents)}

\* Within one tile on each axis.
WithinOneTile(a, b) == Abs(a.x - b.x) <= Tiles(1) /\ Abs(a.y - b.y) <= Tiles(1)

HasProducerNear(ents, i) ==
  \E j \in DOMAIN ents : IsProducer(ents[j].name) /\ WithinOneTile(ents[j], ents[i])

\* C1: after composition (deduplication and direction repair both done) no
\* two entities of the output share the same (type, position, orientation).
C1_NoDuplicateTuples ==
  ComposeDone =>
    \A i, j \in DOMAIN result : i # j => Tuple(result[i]) # Tuple(result[j])

\* C2: composing the unit's entities in any other order yields the same set
\* of output entities (type, position, orientation).
C2_ComposeOrderIndependent ==
  ComposeDone =>
    \A u \in Orderings(entities) : TupleSet(Compose(u, opts)) = TupleSet(result)

\* The options that make a 1 x 1 grid with the identity transform.
SingleIdentityCell ==
  /\ opts.rows = 1 /\ opts.cols = 1
  /\ opts.rot = 0 /\ ~opts.flipX /\ ~opts.flipY

FirstCell == SubSeq(outEntities, 1, Len(entities))

FirstCellWidth == footprintBounds(FirstCell, 0, FALSE, FALSE).width

\* The entities of the cell's trailing edge (its last tile column) that are
\* identical in type, row and orientation to an entity of its leading edge.
SharedEdge ==
  {i \in DOMAIN FirstCell :
     \E j \in DOMAIN FirstCell :
       /\ FirstCell[j].name = FirstCell[i].name
       /\ FirstCell[j].direction = FirstCell[i].direction
       /\ FirstCell[j].y = FirstCell[i].y
       /\ FirstCell[i].x - FirstCell[j].x = Tiles(FirstCellWidth - 1)}

\* C8: a unit of N entities, k of them on the trailing edge identical to
\* entities of the leading edge, composed 1 x 2 with shareX yields 2N - k
\* entities after deduplication.
C8_EdgeSharingCount ==
  (/\ ComposeDone /\ opts.rows = 1 /\ opts.cols = 2 /\ opts.shareX
   /\ FirstCellWidth >= 2)
  => Len(deduped) = 2 * Len(entities) - Cardinality(SharedEdge)

\* C9: in the output of the composer and of the transformer every transfer
\* entity with a producer within one tile on each axis has a defined
\* orientation; one without orientation has no such producer.
C9_RepairedInsertersOriented ==
  (ComposeDone \/ TransformDone) =>
    \A i \in DOMAIN result :
      (result[i].name = "inserter" /\ HasProducerNear(result, i))
        => result[i].direction \in {0, 4, 8, 12}

\* A finished run whose output holds an inserter that came in without
\* orientation, stands next to a producer and left with an orientation, and
\* another inserter that has no producer near and is still without one.
C9_Witness ==
  /\ TransformDone
  /\ \E i \in DOMAIN result :
       /\ result[i].name = "inserter" /\ HasProducerNear(result, i)
       /\ outEntities[i].direction = NoDir /\ result[i].direction # NoDir
  /\ \E i \in DOMAIN result :
       /\ result[i].name = "inserter" /\ ~HasProducerNear(result, i)
       /\ result[i].direction = NoDir

-----------------------------------------------------------------------------
(* The geometry kernel on its own: a chain of kernel operations applied to *)
(* one entity by one of the three programs that carry a copy of the kernel.*)

\* Largest --rotate argument tried.
MaxRot == 4

\* Longest chain of kernel operations applied to one entity.
MaxOps == 2

Variants ==
  {"tools/compose-blueprint", "scripts/compose-blueprint", "scripts/transform-blueprint"}

\* Positions in quarter tiles: tile centres and tile corners of the half-tile
\* grid of a blueprint, and a position off that grid.
GeomPoints == {<<2, 2>>, <<-2, 2>>, <<0, 4>>, <<6, -2>>, <<1, 3>>}

GeomEntity(p, d) == [name |-> "inserter", x |-> p[1], y |-> p[2], direction |-> d]

\* The entities: every position with each of the four directions, one entity
\* without a direction field and two whose direction field lies beyond west
\* (orientations 4 and 5).
GeomEntities ==
  {GeomEntity(p, d) : p \in GeomPoints, d \in {0, 4, 8, 12}}
    \cup {GeomEntity(<<2, 2>>, NoDir), GeomEntity(<<2, 2>>, 16), GeomEntity(<<2, 2>>, 20)}

\* The operations: kind, flips, rotation steps and translation in tiles.
RotateOps ==
  {[kind |-> "rotate", flipX |-> FALSE, flipY |-> FALSE, rot |-> r, tx |-> 0, ty |-> 0] :
     r \in 0..MaxRot}

FlipOps ==
  {[kind |-> "flip", flipX |-> fx, flipY |-> fy, rot |-> 0, tx |-> 0, ty |-> 0] :
     fx \in BOOLEAN, fy \in BOOLEAN} \ {[kind |-> "flip", flipX |-> FALSE, flipY |-> FALSE, rot |-> 0, tx |-> 0, ty |-> 0]}

\* The composers translate an entity by the offset of its grid cell; the
\* transformer does not translate.
TransformOps(variant) ==
  {[kind |-> "transform", flipX |-> fx, flipY |-> fy, rot |-> r, tx |-> 0, ty |-> 0] :
     fx \in BOOLEAN, fy \in BOOLEAN, r \in 0..3}
  \cup
  (IF variant = "scripts/transform-blueprint" THEN {}
   ELSE {[kind |-> "transform", flipX |-> TRUE, flipY |-> FALSE, rot |-> r, tx |-> 1, ty |-> -1] :
           r \in 0..3})

\* What a program does to one entity for an operation.
GeomApply(variant, e, op) ==
  CASE op.kind = "rotate" ->
         IF variant = "scripts/transform-blueprint" THEN rotateEntityT(e, op.rot)
         ELSE rotateEntity(e, op.rot)
    [] op.kind = "flip" -> flipEntity(e, op.flipX, op.flipY)
    [] OTHER ->
         CASE variant = "tools/compose-blueprint" ->
                applyTransform(e, op.flipX, op.flipY, op.rot, op.tx, op.ty)
           [] variant = "scripts/compose-blueprint" ->
                applyTransformLegacy(e, op.flipX, op.flipY, op.rot, op.tx, op.ty)
           [] OTHER -> TransformEntity(e, op.rot % 4, op.flipX, op.flipY)

\* The same operation without its translation.
LinearPart(op) == [op EXCEPT !.tx = 0, !.ty = 0]

\* The entity on the tile that e faces.
FacedBy(e) ==
  LET vec == dirStepToVec(DirStep(e.direction))
  IN  [e EXCEPT !.x = e.x + Tiles(vec.x), !.y = e.y + Tiles(vec.y), !.direction = NoDir]

\* The unit vector of e's direction, as a point.
UnitVectorOf(e) ==
  LET vec == dirStepToVec(DirStep(e.direction))
  IN  [e EXCEPT !.x = Tiles(vec.x), !.y = Tiles(vec.y), !.direction = NoDir]

InitGeom ==
  /\ tool = "geometry"
  /\ pc = "start"
  /\ opts = <<>> /\ entities = <<>>
  /\ outEntities = <<>> /\ deduped = <<>> /\ result = <<>> /\ wires = <<>>
  /\ report = Idle /\ stderr = <<>> /\ cstate = Idle
  /\ \E variant \in Variants, e \in GeomEntities :
       gstate = [variant |-> variant,
                 orig    |-> e,
                 cur     |-> e,
                 faced   |-> FacedBy(e),
                 image   |-> UnitVectorOf(e),
                 ops     |-> <<>>]

\* Apply op to the entity, to the entity on the tile it faced and to the unit
\* vector of its direction.
GeomStep(op) ==
  /\ tool = "geometry"
  /\ Len(gstate.ops) < MaxOps
  /\ gstate' = [gstate EXCEPT
                  !.cur   = GeomApply(gstate.variant, @, op),
                  !.faced = GeomApply(gstate.variant, @, op),
                  !.image = GeomApply(gstate.variant, @, LinearPart(op)),
                  !.ops   = Append(@, op)]
  /\ UNCHANGED <<tool, pc, entities, opts, outEntities, deduped, result, wires, report, stderr, cstate>>

\* rotateEntity of the composer and of the transformer.
GeomRotate ==
  /\ tool = "geometry" /\ gstate.variant # "scripts/compose-blueprint"
  /\ \E op \in RotateOps : GeomStep(op)

\* flipEntity of the composer and of the transformer.
GeomFlip ==
  /\ tool = "geometry" /\ gstate.variant # "scripts/compose-blueprint"
  /\ \E op \in FlipOps : GeomStep(op)

\* applyTransform of the two composers, the entity loop of the transformer.
GeomTransform ==
  /\ tool = "geometry"
  /\ \E op \in TransformOps(gstate.variant) : GeomStep(op)

NextGeom ==
  \/ GeomRotate
  \/ GeomFlip
  \/ GeomTransform

SpecGeom == InitGeom /\ [][NextGeom]_vars

-----------------------------------------------------------------------------
(* Properties of the geometry kernel.                                      *)

GeomActed == tool = "geometry" /\ Len(gstate.ops) >= 1

OnGrid(e) == e.x % 2 = 0 /\ e.y % 2 = 0

DirectionVector(e) ==
  LET vec == dirStepToVec(DirStep(e.direction))
  IN  <<Tiles(vec.x), Tiles(vec.y)>>

\* C4: for each of the four orientations and every chain of flips, rotations
\* and transforms, the unit vector of the transformed orientation is the image
\* of the original unit vector under the flips and rotations applied to the
\* position, and the tile a blueprint entity faced is mapped to the tile it
\* faces afterwards.
C4_OrientationFollowsPosition ==
  (GeomActed /\ gstate.orig.direction \in {0, 4, 8, 12}) =>
    /\ gstate.cur.direction \in {0, 4, 8, 12}
    /\ DirectionVector(gstate.cur) = <<gstate.image.x, gstate.image.y>>
    /\ OnGrid(gstate.orig) =>
         <<gstate.faced.x - gstate.cur.x, gstate.faced.y - gstate.cur.y>>
           = DirectionVector(gstate.cur)

\* The composer flipped an east-facing entity along X and turned it one step
\* while translating it, and the orientation changed with it.
C4_Witness ==
  /\ GeomActed
  /\ gstate.variant = "tools/compose-blueprint"
  /\ gstate.orig.direction = 4 /\ OnGrid(gstate.orig)
  /\ gstate.ops[1].kind = "transform" /\ gstate.ops[1].flipX /\ gstate.ops[1].rot = 1
  /\ gstate.ops[1].tx = 1
  /\ gstate.cur.direction = 0

IsRotation(op, r) == op.kind = "rotate" /\ op.rot = r

\* C5: a rotation by 4 steps leaves a point and an orientation (one of the
\* four, or none) unchanged, and a rotation by 1 step followed by one by 3
\* steps leaves them unchanged.
C5_RotationClosure ==
  /\ (tool = "geometry" /\ Len(gstate.ops) = 1 /\ IsRotation(gstate.ops[1], 4)
        /\ gstate.orig.direction \in {0, 4, 8, 12, NoDir})
       => gstate.cur = gstate.orig
  /\ (tool = "geometry" /\ Len(gstate.ops) = 2
        /\ IsRotation(gstate.ops[1], 1) /\ IsRotation(gstate.ops[2], 3)
        /\ gstate.orig.direction \in {0, 4, 8, 12, NoDir})
       => gstate.cur = gstate.orig

\* An entity off the origin with an orientation was rotated by 1 step and
\* then by 3 steps.
C5_Witness ==
  /\ tool = "geometry" /\ Len(gstate.ops) = 2
  /\ IsRotation(gstate.ops[1], 1) /\ IsRotation(gstate.ops[2], 3)
  /\ gstate.orig.x = 1 /\ gstate.orig.y = 3 /\ gstate.orig.direction = 4
  /\ gstate.cur = gstate.orig

\* A single operation that only rotates by one step.
OneStepOnly(op) ==
  /\ op.kind \in {"rotate", "transform"}
  /\ ~op.flipX /\ ~op.flipY /\ op.rot = 1 /\ op.tx = 0 /\ op.ty = 0

\* C6: in the composers and in the transformer a rotation by one step is a
\* quarter turn clockwise: orientation o becomes (o + 1) mod 4 and the point
\* (x, y) becomes (-y, x).
C6_OneStepIsClockwise ==
  (/\ tool = "geometry" /\ Len(gstate.ops) = 1 /\ OneStepOnly(gstate.ops[1])
   /\ OnGrid(gstate.orig) /\ gstate.orig.direction # NoDir)
  =>
    /\ DirStep(gstate.cur.direction) = (DirStep(gstate.orig.direction) + 1) % 4
    /\ gstate.cur.x = -gstate.orig.y /\ gstate.cur.y = gstate.orig.x

-----------------------------------------------------------------------------
(* Belt flow analyzer, scripts/blueprint-flow.ts (the newer copy classifies *)
(* components by their inserters, the older one by centroids only).        *)
(* Rates are integers counting 1/RateScale items per second and a recipe   *)
(* time counts half seconds, so that (count * speed) / recipeTime is exact.*)

RateScale == 14

Null == [null |-> TRUE]

\* beltSpeeds, the default table; 0 stands for a name without an entry.
beltSpeeds(name) ==
  CASE name = "transport-belt" -> 15
    [] name = "fast-transport-belt" -> 30
    [] name = "express-transport-belt" -> 45
    [] OTHER -> 0

furnaceNames == {"stone-furnace", "steel-furnace", "electric-furnace"}

\* countEntities: counts[name].
countEntities(ents, name) == Cardinality({i \in DOMAIN ents : ents[i].name = name})

RECURSIVE SetSum(_, _)
\* The sum of f[k] over the keys k of S.
SetSum(f, S) ==
  IF S = {} THEN 0
  ELSE LET k == CHOOSE k \in S : TRUE IN f[k] + SetSum(f, S \ {k})

\* computeThroughput: totalPerSec for the entity_speeds table `speeds` (a
\* function from names to speeds) and a recipe time in half seconds.
computeThroughput(ents, recipeTime, speeds) ==
  LET names == {n \in DOMAIN speeds : countEntities(ents, n) > 0}
      itemsPerSec == [n \in names |->
                        (RateScale * 2 * countEntities(ents, n) * speeds[n]) \div recipeTime]
  IN  SetSum(itemsPerSec, names)

\* posKey of the rounded position of an entity.
posKey(e) == <<RoundTile(e.x), RoundTile(e.y)>>

IsBelt(e) == beltSpeeds(e.name) # 0

\* Map.prototype.set on a map kept as the sequence of its entries in
\* insertion order: an existing key keeps its place and takes the new value.
MapSet(map, key, b) ==
  IF \E i \in DOMAIN map : map[i].key = key
  THEN [i \in DOMAIN map |-> IF map[i].key = key THEN [key |-> key, b |-> b] ELSE map[i]]
  ELSE Append(map, [key |-> key, b |-> b])

RECURSIVE BeltMapFrom(_, _)
\* main, the loop that fills beltMap.
BeltMapFrom(belts, map) ==
  IF belts = <<>> THEN map
  ELSE BeltMapFrom(Tail(belts), MapSet(map, posKey(Head(belts)), Head(belts)))

beltMap(ents) == BeltMapFrom(SelectSeq(ents, IsBelt), <<>>)

MapKeys(map) == {map[i].key : i \in DOMAIN map}

RECURSIVE find(_, _)
\* find: the root of a under parent.
find(parent, a) == IF parent[a] = a THEN a ELSE find(parent, parent[a])

RECURSIVE CompressTo(_, _, _)
\* "parent.set(a, r)" for every key find visits from a up to the root r.
CompressTo(parent, a, r) ==
  IF parent[a] = a THEN parent
  ELSE CompressTo([parent EXCEPT ![a] = r], parent[a], r)

\* The parent map after find(a): every key visited points at the root.
Compress(parent, a) == CompressTo(parent, a, find(parent, a))

\* A union that hangs b itself, not its root, under the root of a.
unionChildOnly(parent, a, b) ==
  LET ra == find(parent, a)
      rb == find(parent, b)
      p  == Compress(Compress(parent, a), b)
  IN  IF ra = rb THEN p ELSE [p EXCEPT ![b] = ra]

\* A union that hangs the root of b under a without comparing the roots.
unionWithoutRootCheck(parent, a, b) ==
  LET rb == find(parent, b)
      p  == Compress(Compress(parent, a), b)
  IN  [p EXCEPT ![rb] = a]

\* union: the parent map after union(a, b).
union(parent, a, b) ==
  LET ra == find(parent, a)
      rb == find(parent, b)
      p  == Compress(Compress(parent, a), b)
  IN  IF ra = rb THEN p ELSE [p EXCEPT ![rb] = ra]

\* The neighbours of a key, in the order the code visits them.
Neighbours(k) ==
  << <<k[1] + 1, k[2]>>, <<k[1] - 1, k[2]>>, <<k[1], k[2] + 1>>, <<k[1], k[2] - 1>> >>

RECURSIVE UnionFrom(_, _, _, _)
\* main, the loop over beltMap.values() and, inside it, over the neighbours.
UnionFrom(map, parent, i, j) ==
  IF i > Len(map) THEN parent
  ELSE IF j > 4 THEN UnionFrom(map, parent, i + 1, 1)
  ELSE LET nk == Neighbours(map[i].key)[j]
       IN  UnionFrom(map,
                     IF nk \in MapKeys(map) THEN union(parent, map[i].key, nk) ELSE parent,
                     i, j + 1)

\* The parent map after the union loop.
Parent(map) == UnionFrom(map, [k \in MapKeys(map) |-> k], 1, 1)

RECURSIVE Distinct(_)
\* A sequence without its repeated elements, first occurrences kept: the
\* insertion order of a Map's keys or of a Set.
Distinct(s) ==
  IF s = <<>> THEN <<>>
  ELSE LET rest == Distinct(SubSeq(s, 1, Len(s) - 1))
       IN  IF \E i \in DOMAIN rest : rest[i] = s[Len(s)] THEN rest
           ELSE Append(rest, s[Len(s)])

\* The keys of comps in insertion order.
CompRoots(map, parent) == Distinct([i \in DOMAIN map |-> find(parent, map[i].key)])

\* The entries of beltMap that belong to the component of a root.
ItemsOf(map, parent, root) == {i \in DOMAIN map : find(parent, map[i].key) = root}

\* main, "decide orientation" in compList's map callback: by the directions of
\* the items when any has one, by the spans otherwise.
Horizontal(map, items) ==
  LET xs    == {map[i].key[1] : i \in items}
      ys    == {map[i].key[2] : i \in items}
      dirs  == {i \in items : map[i].b.direction # NoDir}
      vx    == [i \in dirs |-> dirStepToVec(DirStep(map[i].b.direction)).x]
      vy    == [i \in dirs |-> dirStepToVec(DirStep(map[i].b.direction)).y]
      spanX == SetMax(xs) - SetMin(xs)
      spanY == SetMax(ys) - SetMin(ys)
  IN  IF dirs # {} THEN Abs(SetSum(vx, dirs)) >= Abs(SetSum(vy, dirs))
      ELSE spanX >= spanY

\* laneMap.get(laneKey) ?? [], then push and set: laneMap as the sequence of
\* its entries [key, speeds].
LanePush(laneMap, laneKey, speed) ==
  IF \E n \in DOMAIN laneMap : laneMap[n].key = laneKey
  THEN [n \in DOMAIN laneMap |->
          IF laneMap[n].key = laneKey
          THEN [key |-> laneKey, speeds |-> Append(laneMap[n].speeds, speed)]
          ELSE laneMap[n]]
  ELSE Append(laneMap, [key |-> laneKey, speeds |-> <<speed>>])

RECURSIVE LaneMapFrom(_, _, _, _, _)
\* main, the loop over c.items that fills laneMap (items are in beltMap order).
LaneMapFrom(map, items, horizontal, i, laneMap) ==
  IF i > Len(map) THEN laneMap
  ELSE LaneMapFrom(map, items, horizontal, i + 1,
         IF i \in items
         THEN LanePush(laneMap,
                       IF horizontal THEN map[i].key[2] ELSE map[i].key[1],
                       beltSpeeds(map[i].b.name))
         ELSE laneMap)

\* A lane capacity that adds the speeds of the lane.
laneTotal(speedsArr) == SeqSum(speedsArr)

\* laneMin: Math.min(...speedsArr)
laneMin(speedsArr) == SetMin(Range(speedsArr))

\* compCap: the sum of laneMin over laneMap.values().
compCap(laneMap) == SeqSum([n \in DOMAIN laneMap |-> laneMin(laneMap[n].speeds)])

\* main, the body of compList's map callback, for the component of a root.
Component(map, parent, root) ==
  LET items    == ItemsOf(map, parent, root)
      laneMap  == LaneMapFrom(map, items, Horizontal(map, items), 1, <<>>)
      sumX     == SetSum([i \in items |-> map[i].key[1]], items)
      sumY     == SetSum([i \in items |-> map[i].key[2]], items)
  IN  [root |-> root, size |-> Cardinality(items), cap |-> compCap(laneMap),
       sumX |-> sumX, sumY |-> sumY]

RECURSIVE CompListFrom(_, _, _, _)
\* Array.from(comps.entries()).map(...): one record per entry, in order.
CompListFrom(map, parent, roots, list) ==
  IF Len(list) = Len(roots) THEN list
  ELSE CompListFrom(map, parent, roots,
                    Append(list, Component(map, parent, roots[Len(list) + 1])))

\* compList; the centroid of a component is (sumX / size, sumY / size).
compList(map, parent) == CompListFrom(map, parent, CompRoots(map, parent), <<>>)

\* Math.abs(c.cx - x) < Math.abs(best.cx - x) for x = x2 / 2, the two
\* quotients compared by cross-multiplication.
Closer(c, best, x2) ==
  Abs(2 * c.sumX - c.size * x2) * best.size < Abs(2 * best.sumX - best.size * x2) * c.size

RECURSIVE ClosestFrom(_, _, _, _)
\* "let best = compList[0]; for (const c of compList) if (closer) best = c":
\* the index of best.
ClosestFrom(list, x2, i, best) ==
  IF i > Len(list) THEN best
  ELSE ClosestFrom(list, x2, i + 1, IF Closer(list[i], list[best], x2) THEN i ELSE best)

Closest(list, x2) == ClosestFrom(list, x2, 1, 1)

\* main, the loop over the inserters: the roots added to inputCompRoots
\* (kind "input") or outputCompRoots (kind "output"), in insertion order.
InserterRoots(ents, map, parent, kind) ==
  LET furnaceKeys == {posKey(ents[i]) : i \in {n \in DOMAIN ents : ents[n].name \in furnaceNames}}
      Directed(e) == e.name = "inserter" /\ e.direction # NoDir
      inserters   == SelectSeq(ents, Directed)
      v(e)        == dirStepToVec(DirStep(e.direction))
      pickupKey(e) == <<posKey(e)[1] - v(e).x, posKey(e)[2] - v(e).y>>
      dropKey(e)   == <<posKey(e)[1] + v(e).x, posKey(e)[2] + v(e).y>>
      IsInput(e)  == pickupKey(e) \in MapKeys(map) /\ dropKey(e) \in furnaceKeys
      IsOutput(e) == ~IsInput(e) /\ pickupKey(e) \in furnaceKeys /\ dropKey(e) \in MapKeys(map)
      ins  == SelectSeq(inserters, IsInput)
      outs == SelectSeq(inserters, IsOutput)
  IN  IF kind = "input"
      THEN Distinct([i \in DOMAIN ins |-> find(parent, pickupKey(ins[i]))])
      ELSE Distinct([i \in DOMAIN outs |-> find(parent, dropKey(outs[i]))])

\* A bottleneck test that leaves out the boundary.
IsBottleneckStrict(totalPerSec, outputCapacityPerSec) ==
  totalPerSec > RateScale * outputCapacityPerSec

\* belt_bottleneck: throughput.totalPerSec >= outputCapacityPerSec
IsBottleneck(totalPerSec, outputCapacityPerSec) ==
  totalPerSec >= RateScale * outputCapacityPerSec

\* The index in compList of the component of a root.
IndexOfRoot(list, root) == CHOOSE i \in DOMAIN list : list[i].root = root

\* main: the report of one run.  byInserters tells the newer copy of the
\* script from the older one.
FlowReport(ents, recipeTime, speeds, byInserters) ==
  LET map      == beltMap(ents)
      belts    == SelectSeq(ents, IsBelt)
      bxs      == {posKey(belts[i])[1] : i \in DOMAIN belts}
      minX     == SetMin(bxs)
      maxX     == SetMax(bxs)
      parent   == Parent(map)
      list     == compList(map, parent)
      caps     == {list[i].cap : i \in DOMAIN list}
      maxComponentCapacity == IF list # <<>> THEN SetMax(caps) ELSE 0
      inRoots  == IF byInserters THEN InserterRoots(ents, map, parent, "input") ELSE <<>>
      outRoots == IF byInserters THEN InserterRoots(ents, map, parent, "output") ELSE <<>>
      outputComponent ==
        IF outRoots # <<>> THEN IndexOfRoot(list, outRoots[1])
        ELSE IF list # <<>> THEN Closest(list, minX + maxX)
        ELSE 0
      bestL    == Closest(list, 2 * minX)
      bestR    == Closest(list, 2 * maxX)
      inputCapacityPerSec ==
        IF inRoots # <<>>
        THEN SeqSum([i \in DOMAIN inRoots |-> list[IndexOfRoot(list, inRoots[i])].cap])
        ELSE IF list # <<>>
        THEN list[bestL].cap + (IF bestR = bestL THEN 0 ELSE list[bestR].cap)
        ELSE 0
      outputCapacityPerSec ==
        IF outputComponent # 0 THEN list[outputComponent].cap ELSE maxComponentCapacity
      totalPerSec == computeThroughput(ents, recipeTime, speeds)
  IN  [totalPerSec |-> totalPerSec,
       belt_components |-> [i \in DOMAIN list |->
                              [cap |-> list[i].cap, size |-> list[i].size,
                               sumX |-> list[i].sumX, sumY |-> list[i].sumY]],
       output_component |-> IF outputComponent # 0
                            THEN [cap |-> list[outputComponent].cap,
                                  sumX |-> list[outputComponent].sumX,
                                  size |-> list[outputComponent].size]
                            ELSE Null,
       input_capacity_per_sec |-> inputCapacityPerSec,
       effective_ore_input_per_sec |-> (RateScale * inputCapacityPerSec) \div 2,
       output_capacity_per_sec |-> outputCapacityPerSec,
       belt_bottleneck |-> IsBottleneck(totalPerSec, outputCapacityPerSec)]

-----------------------------------------------------------------------------
(* Inputs and runs of the flow analyzer.                                   *)

\* Tile columns 0..MaxCol a blueprint given to the analyzer may use.
MaxCol == 3

\* Name, direction field and offset of the position inside its tile column
\* in quarter tiles: 2 is the tile centre; a belt at offset 1 rounds to the
\* grid position of the tile centre to its left.
FlowKinds ==
  { <<"transport-belt", 4, 2>>, <<"fast-transport-belt", 4, 2>>,
    <<"fast-transport-belt", 4, 1>>,
    <<"inserter", 4, 2>>, <<"inserter", 12, 2>>, <<"stone-furnace", NoDir, 2>> }

FlowEntity(kind, col) ==
  [name |-> kind[1], x |-> Tiles(col) + kind[3], y |-> 2, direction |-> kind[2]]

RECURSIVE FlowListFrom(_, _)
FlowListFrom(layout, col) ==
  IF col > MaxCol THEN <<>>
  ELSE (IF layout[col] = Empty THEN <<>> ELSE <<FlowEntity(layout[col], col)>>)
       \o FlowListFrom(layout, col + 1)

\* Belts that run north across the row, next to one that runs along it.
LaneKinds ==
  { <<"transport-belt", 0, 2>>, <<"fast-transport-belt", 0, 2>>,
    <<"fast-transport-belt", 4, 2>> }

\* Blueprints listed from left to right or from right to left.
FlowBlueprints ==
  LET lists == {FlowListFrom(layout, 0) : layout \in [0..MaxCol -> FlowKinds \cup {Empty}]}
                 \cup {FlowListFrom(layout, 0) : layout \in [0..MaxCol -> LaneKinds \cup {Empty}]}
  IN  lists \cup {Reverse(v) : v \in lists}

NoSpeeds == [n \in {} |-> 0]

\* The recipes database and the --recipe-time argument (in half seconds; 7
\* is the default of 3.5 s): entity_speeds and recipeTime.
FlowConfigs ==
  { [speeds |-> NoSpeeds, recipeTime |-> 7],
    [speeds |-> [n \in {"stone-furnace"} |-> 1], recipeTime |-> 7],
    [speeds |-> [n \in {"stone-furnace"} |-> 15], recipeTime |-> 2],
    [speeds |-> [n \in {"stone-furnace"} |-> 15], recipeTime |-> 4] }

FlowTools == {"blueprint-flow", "scripts/blueprint-flow"}

InitFlow ==
  /\ tool \in FlowTools
  /\ pc = "start"
  /\ opts \in FlowConfigs
  /\ entities \in FlowBlueprints
  /\ outEntities = <<>> /\ deduped = <<>> /\ result = <<>> /\ wires = <<>>
  /\ report = Idle /\ gstate = Idle /\ stderr = <<>> /\ cstate = Idle

\* main of the newer script (inserter classification, then centroids).
FlowRun ==
  /\ tool = "blueprint-flow" /\ pc = "start"
  /\ report' = FlowReport(entities, opts.recipeTime, opts.speeds, TRUE)
  /\ pc' = "done"
  /\ UNCHANGED <<tool, entities, opts, outEntities, deduped, result, wires, gstate, stderr, cstate>>

\* main of the older script (centroids only).
FlowRunLegacy ==
  /\ tool = "scripts/blueprint-flow" /\ pc = "start"
  /\ report' = FlowReport(entities, opts.recipeTime, opts.speeds, FALSE)
  /\ pc' = "done"
  /\ UNCHANGED <<tool, entities, opts, outEntities, deduped, result, wires, gstate, stderr, cstate>>

NextFlow ==
  \/ FlowRun
  \/ FlowRunLegacy

SpecFlow == InitFlow /\ [][NextFlow]_vars

-----------------------------------------------------------------------------
(* Properties of the flow analyzer.                                        *)

FlowDone == tool \in FlowTools /\ pc = "done"

\* The numeric fields of a report that do not depend on how the components
\* are listed: how many components have each (capacity, size), the supply and
\* drain capacities and the bottleneck flag.
FlowFigures(r) ==
  [components |-> [p \in {<<r.belt_components[i].cap, r.belt_components[i].size>> :
                            i \in DOMAIN r.belt_components} |->
                     Cardinality({i \in DOMAIN r.belt_components :
                                    <<r.belt_components[i].cap, r.belt_components[i].size>> = p})],
   supply |-> r.input_capacity_per_sec,
   drain  |-> r.output_capacity_per_sec,
   bottleneck |-> r.belt_bottleneck]

\* C3: the analysis of every reordering of the input entities reports the
\* same component capacities and sizes, the same supply and drain capacities
\* and the same bottleneck flag.
C3_FlowOrderIndependent ==
  FlowDone =>
    \A u \in Orderings(entities) :
      FlowFigures(FlowReport(u, opts.recipeTime, opts.speeds, tool = "blueprint-flow"))
        = FlowFigures(report)

\* C10: when the blueprint has a drain component, the bottleneck flag is true
\* exactly when the required throughput, the sum over the entity_speeds table
\* of count * speed / recipeTime, is at least the drain component's capacity.
C10_BottleneckBoundary ==
  (FlowDone /\ report.output_component # Null) =>
    LET names == DOMAIN opts.speeds
        work  == SetSum([n \in names |-> countEntities(entities, n) * opts.speeds[n]], names)
    IN  report.belt_bottleneck <=> (2 * work >= report.output_component.cap * opts.recipeTime)

\* The furnaces require exactly the 15 items per second that the drain
\* component carries, and the flag is set.
C10_Witness ==
  /\ FlowDone /\ report.output_component # Null
  /\ report.output_component.cap = 15
  /\ report.totalPerSec = RateScale * 15
  /\ report.belt_bottleneck

\* The furnaces require 15 items per second of a drain component that carries
\* 30, and the flag is not set.
C10_WitnessBelow ==
  /\ FlowDone /\ report.output_component # Null
  /\ report.output_component.cap = 30
  /\ report.totalPerSec = RateScale * 15
  /\ ~report.belt_bottleneck

\* The input holds no transport entity.
NoTransport == \A i \in DOMAIN entities : ~IsBelt(entities[i])

\* C11: the analysis of a collection without transport entities reports zero
\* components and no bottleneck, whatever the required throughput.
C11_NoTransportNoBottleneck ==
  (FlowDone /\ NoTransport) =>
    /\ report.belt_components = <<>>
    /\ ~report.belt_bottleneck

\* C12: the capacity reported for a component is the sum, over the lane
\* coordinates of its members, of the smallest speed among the members on
\* that coordinate.
C12_LaneCapacityLaw ==
  FlowDone =>
    \A map \in {beltMap(entities)} :
      \A parent \in {Parent(map)} :
        \A roots \in {CompRoots(map, parent)} :
          /\ Len(report.belt_components) = Len(roots)
          /\ \A k \in DOMAIN roots :
               \A items \in {ItemsOf(map, parent, roots[k])} :
                 \A horizontal \in {Horizontal(map, items)} :
                   LET coord(i) == IF horizontal THEN map[i].key[2] ELSE map[i].key[1]
                       lanes    == {coord(i) : i \in items}
                       slowest  == [l \in lanes |->
                                      SetMin({beltSpeeds(map[i].b.name) :
                                                i \in {n \in items : coord(n) = l}})]
                   IN  report.belt_components[k].cap = SetSum(slowest, lanes)

\* Three belts of speeds 15, 30 and 15 in one lane were analysed as one
\* component of capacity 15.
C12_Witness ==
  /\ FlowDone
  /\ Len(entities) = 3
  /\ \A i \in DOMAIN entities : entities[i].direction = 4
  /\ entities[1].name = "transport-belt"
  /\ entities[2].name = "fast-transport-belt"
  /\ entities[3].name = "transport-belt"
  /\ Len(report.belt_components) = 1
  /\ report.belt_components[1].size = 3
  /\ report.belt_components[1].cap = 15

\* Belts that run across the row are a lane each, and their capacities add.
C12_WitnessLanes ==
  /\ FlowDone
  /\ Len(report.belt_components) = 1
  /\ report.belt_components[1].size = 3
  /\ report.belt_components[1].cap = 60

\* The orientation of an entity: its direction field counted in quarter turns.
OutOfRange(e) == e.direction # NoDir /\ e.direction \notin {0, 4, 8, 12}

\* C13: no kernel operation completes on an entity whose orientation is
\* outside 0..3; the call fails instead and the value is never brought into
\* range.
C13_OutOfRangeRejected ==
  ~(GeomActed /\ OutOfRange(gstate.orig))

\* The composer run is over, with or without output.
ComposeEnded == tool = "compose-blueprint" /\ pc \in {"done", "failed"}

\* C14: a blueprint holding a record without position is composed to the
\* end; the record is skipped and the output is the one the blueprint
\* without that record gives.
C14_MalformedEntitySkipped ==
  (ComposeEnded /\ \E i \in DOMAIN entities : Malformed(entities[i])) =>
    /\ pc = "done"
    /\ result = Compose(WithoutMalformed(entities), opts)

\* The entity list before direction repair.
BeforeRepair == IF tool = "compose-blueprint" THEN deduped ELSE outEntities

\* C15: an inserter that reaches direction repair without orientation and has
\* no producer next to it leaves without orientation, the run completes, and
\* the diagnostics written by the run list that inserter.
C15_UnrepairedInserterReported ==
  (ComposeDone \/ TransformDone) =>
    \A i \in DOMAIN result :
      (/\ result[i].name = "inserter"
       /\ BeforeRepair[i].direction = NoDir
       /\ ~HasProducerNear(result, i))
      => /\ result[i].direction = NoDir
         /\ \E k \in DOMAIN stderr :
              stderr[k].kind = "warning" /\ stderr[k].entity = i

\* The grid asked for has no cell.
EmptyGrid == opts.rows <= 0 \/ opts.cols <= 0

AnyComposeDone ==
  tool \in {"compose-blueprint", "scripts/compose-blueprint"} /\ pc = "done"

\* The wires of the output as tuples of numbers in quarters, whichever file
\* wrote them.
WireNumbers ==
  IF tool = "scripts/compose-blueprint" THEN wires
  ELSE [k \in DOMAIN wires |-> [i \in DOMAIN wires[k] |-> Num(wires[k][i])]]

\* w is [a, 5, b, 5] for the entity numbers a # b of two poles of the output.
IsIndexWire(w) ==
  /\ Len(w) = 4
  /\ w[2] = Num(5) /\ w[4] = Num(5)
  /\ \E a, b \in DOMAIN result :
       /\ a # b
       /\ w[1] = Num(a) /\ w[3] = Num(b)
       /\ IsPole(result[a].name) /\ IsPole(result[b].name)

\* C17: every element of the wiring output is a 4-tuple [a, 5, b, 5] whose a
\* and b are the sequential numbers of two different poles of the output.
C17_WiresAreIndexTuples ==
  AnyComposeDone => \A k \in DOMAIN WireNumbers : IsIndexWire(WireNumbers[k])

\* The poles a wire joins: by entity number for [a, 5, b, 5], else the small
\* poles at the coordinates the wire gives.
WirePair(w) ==
  IF IsIndexWire(w)
  THEN {a \in DOMAIN result : Num(a) \in {w[1], w[3]}}
  ELSE {a \in DOMAIN result :
          /\ result[a].name = "small-electric-pole"
          /\ <<result[a].x, result[a].y>> \in {<<w[1], w[2]>>, <<w[3], w[4]>>}}

\* C18: no unordered pair of poles is wired twice in the final output,
\* whichever endpoint or wiring pass found it.
C18_PolePairWiredOnce ==
  AnyComposeDone =>
    \A i, j \in DOMAIN WireNumbers :
      i # j => WirePair(WireNumbers[i]) # WirePair(WireNumbers[j])

\* The composer of tools/compose-blueprint alone.
ToolsWiresAreIndexTuples ==
  ComposeDone => \A k \in DOMAIN WireNumbers : IsIndexWire(WireNumbers[k])

ToolsPolePairWiredOnce ==
  ComposeDone =>
    \A i, j \in DOMAIN WireNumbers :
      i # j => WirePair(WireNumbers[i]) # WirePair(WireNumbers[j])

-----------------------------------------------------------------------------
(* Footprints, scripts/blueprint-ascii.ts and footprintBounds.             *)

\* A footprint whose end tiles are Math.ceil of the far edges.
asciiFootprintInclusiveEnd(ent) ==
  LET wh     == SIZE_MAP(ent.name)
      dir    == IF ent.direction = NoDir THEN 0 ELSE ent.direction
      rot    == (dir \div 4) % 4
      w      == IF rot % 2 = 1 THEN wh[2] ELSE wh[1]
      h      == IF rot % 2 = 1 THEN wh[1] ELSE wh[2]
  IN  [name |-> ent.name,
       xStart |-> FloorTile(ent.x - 2 * w), xEnd |-> CeilTile(ent.x + 2 * w),
       yStart |-> FloorTile(ent.y - 2 * h), yEnd |-> CeilTile(ent.y + 2 * h)]

\* The footprint of one entity in the renderer (body of the loop over
\* entities): the continuous span mapped to integer tiles.
asciiFootprint(ent) ==
  LET wh     == SIZE_MAP(ent.name)
      dir    == IF ent.direction = NoDir THEN 0 ELSE ent.direction
      rot    == (dir \div 4) % 4
      w      == IF rot % 2 = 1 THEN wh[2] ELSE wh[1]
      h      == IF rot % 2 = 1 THEN wh[1] ELSE wh[2]
      left   == ent.x - 2 * w
      right  == ent.x + 2 * w
      top    == ent.y - 2 * h
      bottom == ent.y + 2 * h
  IN  [name |-> ent.name,
       xStart |-> FloorTile(left), xEnd |-> CeilTile(right) - 1,
       yStart |-> FloorTile(top), yEnd |-> CeilTile(bottom) - 1]

\* footprintBounds of the composer on the entity alone.
composerFootprint(ent) ==
  LET fb == footprintBounds(<<ent>>, 0, FALSE, FALSE)
  IN  [name |-> ent.name, xStart |-> fb.xStart, xEnd |-> fb.xEnd,
       yStart |-> fb.yStart, yEnd |-> fb.yEnd]

\* Centres lie on the half-tile grid, at most MaxHalf half tiles from 0.
MaxHalf == 5

HalfGrid == {2 * k : k \in -MaxHalf..MaxHalf}

MultiTileNames == {"boiler", "steam-engine", "stone-furnace", "assembling-machine-1"}

\* A multi-tile entity near the origin followed by a 1x1 entity.
FootPairs ==
  { << [name |-> n, x |-> ax, y |-> ay, direction |-> d],
       [name |-> "inserter", x |-> bx, y |-> by, direction |-> 0] >> :
    n \in MultiTileNames, d \in {NoDir, 0, 4}, ax \in {2, 4, 6}, ay \in {2, 4},
    bx \in HalfGrid, by \in {2, 4} }

FootTools == {"blueprint-ascii", "footprintBounds"}

InitFoot ==
  /\ tool \in FootTools
  /\ pc = "start"
  /\ opts = Idle
  /\ entities \in FootPairs
  /\ outEntities = <<>> /\ deduped = <<>> /\ result = <<>> /\ wires = <<>>
  /\ report = Idle /\ gstate = Idle /\ stderr = <<>> /\ cstate = Idle

\* The renderer computes the footprint of every entity.
AsciiFootprints ==
  /\ tool = "blueprint-ascii" /\ pc = "start"
  /\ report' = [i \in DOMAIN entities |-> asciiFootprint(entities[i])]
  /\ pc' = "done"
  /\ UNCHANGED <<tool, entities, opts, outEntities, deduped, result, wires, gstate,
                 stderr, cstate>>

\* footprintBounds is applied to each entity.
ComposerFootprints ==
  /\ tool = "footprintBounds" /\ pc = "start"
  /\ report' = [i \in DOMAIN entities |-> composerFootprint(entities[i])]
  /\ pc' = "done"
  /\ UNCHANGED <<tool, entities, opts, outEntities, deduped, result, wires, gstate,
                 stderr, cstate>>

NextFoot ==
  \/ AsciiFootprints
  \/ ComposerFootprints

SpecFoot == InitFoot /\ [][NextFoot]_vars

FootDone == tool \in FootTools /\ pc = "done"

\* The continuous span of an entity on the x axis, in quarters.
SpanX(ent) ==
  LET wh  == SIZE_MAP(ent.name)
      rot == IF ent.direction = NoDir THEN 0 ELSE (ent.direction \div 4) % 4
      w   == IF rot % 2 = 1 THEN wh[2] ELSE wh[1]
  IN  [left |-> ent.x - 2 * w, right |-> ent.x + 2 * w]

\* The spans of entities lo and hi touch on the x axis, lo on the left.
TouchX(lo, hi) == SpanX(entities[lo]).right = SpanX(entities[hi]).left

\* The tile ranges of lo and hi are flush: hi starts on the tile after the
\* last tile of lo.
FlushX(lo, hi) == report[hi].xStart = report[lo].xEnd + 1

\* C19 as stated: whenever the spans of the multi-tile entity and the 1x1
\* entity touch on an axis, their tile ranges are flush.
C19_TouchingSpansFlush ==
  FootDone =>
    \A lo, hi \in DOMAIN entities : (lo # hi /\ TouchX(lo, hi)) => FlushX(lo, hi)

\* C19 amended: when the spans touch at a whole tile coordinate, the tile
\* ranges are flush.
C19_TouchingAtTileEdgeFlush ==
  FootDone =>
    \A lo, hi \in DOMAIN entities :
      (lo # hi /\ TouchX(lo, hi) /\ SpanX(entities[lo]).right % 4 = 0)
        => FlushX(lo, hi)

\* An inserter centred at x = -0.5 (span -1..0) and a boiler centred at 1.5
\* (span 0..3): the ranges are -1..-1 and 0..2.
C19_Witness ==
  /\ FootDone
  /\ entities[1].name = "boiler" /\ entities[1].direction = 0 /\ entities[1].x = 6
  /\ entities[2].x = -2
  /\ TouchX(2, 1)
  /\ report[2].xStart = -1 /\ report[2].xEnd = -1
  /\ report[1].xStart = 0 /\ report[1].xEnd = 2

-----------------------------------------------------------------------------
(* Requirements cache, scripts/calculate-requirements.ts and CacheService. *)

\* Calculator URLs of the runs.
CacheUrls == {"calc?item=a", "calc?item=b"}

\* getCacheKey: the first 16 hex digits of the SHA-256 digest of the URL.
\* The digests of the URLs above differ.
getCacheKey(url) ==
  CASE url = "calc?item=a" -> "5d41402abc4b2a76"
    [] url = "calc?item=b" -> "7d793037a0760186"

CacheKeys == {getCacheKey(url) : url \in CacheUrls}

\* The time to live of an entry, in ticks of the clock (7 days).
defaultTTL == 2

\* The clock stops at MaxTime, and at most MaxRuns runs are made.
MaxTime == 4

MaxRuns == 3

\* A get that takes an entry for expired one tick early.
cacheGetExpiresEarly(cache, cacheKey, now) ==
  IF cache[cacheKey] = Null THEN [cache |-> cache, value |-> Null]
  ELSE IF now - cache[cacheKey].cachedAt + 1 >= cache[cacheKey].ttl
       THEN [cache |-> [cache EXCEPT ![cacheKey] = Null], value |-> Null]
       ELSE [cache |-> cache, value |-> cache[cacheKey].result]

\* CacheService.get: null without a file; an entry whose age has reached its
\* ttl is deleted and null returned; else the entry's result.
cacheGet(cache, cacheKey, now) ==
  IF cache[cacheKey] = Null THEN [cache |-> cache, value |-> Null]
  ELSE IF now - cache[cacheKey].cachedAt >= cache[cacheKey].ttl
       THEN [cache |-> [cache EXCEPT ![cacheKey] = Null], value |-> Null]
       ELSE [cache |-> cache, value |-> cache[cacheKey].result]

\* CacheService.set
cacheSet(cache, cacheKey, url, res, now) ==
  [cache EXCEPT ![cacheKey] = [url |-> url, result |-> res, cachedAt |-> now,
                               ttl |-> defaultTTL]]

\* CacheService.delete
cacheDelete(cache, cacheKey) == [cache EXCEPT ![cacheKey] = Null]

\* cstate: the clock, the cache directory, the number of calculator queries
\* and of runs so far, the last run, and two histories per URL: the entry
\* stored last (ever), and the entry stored last unless a --clear-cache run
\* for the URL came after it (kept).
InitCache ==
  /\ tool = "calculate-requirements"
  /\ pc = "start"
  /\ opts = Idle
  /\ entities = <<>>
  /\ outEntities = <<>> /\ deduped = <<>> /\ result = <<>> /\ wires = <<>>
  /\ report = Idle /\ gstate = Idle /\ stderr = <<>>
  /\ cstate = [now |-> 0, cache |-> [k \in CacheKeys |-> Null], queries |-> 0,
               runs |-> 0, last |-> Null,
               ever |-> [u \in CacheUrls |-> Null],
               kept |-> [u \in CacheUrls |-> Null]]

\* Time passes.
Tick ==
  /\ tool = "calculate-requirements"
  /\ cstate.now < MaxTime
  /\ cstate' = [cstate EXCEPT !.now = @ + 1]
  /\ UNCHANGED <<tool, pc, entities, opts, outEntities, deduped, result, wires,
                 report, gstate, stderr>>

\* main of calculate-requirements for a valid configuration whose URL is url;
\* ok tells whether queryCalculator returns (it throws otherwise, and the
\* run exits with status 2).  The calculator's answer to the n-th query is
\* [data |-> n].
CalcRun(url, noCache, clearCache, ok) ==
  LET cacheKey == getCacheKey(url)
      now      == cstate.now
      cleared  == IF clearCache THEN cacheDelete(cstate.cache, cacheKey)
                  ELSE cstate.cache
      got      == IF noCache THEN [cache |-> cleared, value |-> Null]
                  ELSE cacheGet(cleared, cacheKey, now)
      hit      == got.value # Null
      fresh    == [data |-> cstate.queries + 1]
      stored   == ~hit /\ ok
      entry    == [url |-> url, result |-> fresh, cachedAt |-> now, ttl |-> defaultTTL]
      kept1    == IF clearCache THEN [cstate.kept EXCEPT ![url] = Null] ELSE cstate.kept
  IN  /\ tool = "calculate-requirements"
      /\ cstate.runs < MaxRuns
      /\ cstate' =
           [now     |-> now,
            cache   |-> IF stored THEN cacheSet(got.cache, cacheKey, url, fresh, now)
                        ELSE got.cache,
            queries |-> IF hit THEN cstate.queries ELSE cstate.queries + 1,
            runs    |-> cstate.runs + 1,
            last    |-> [url |-> url, noCache |-> noCache, clearCache |-> clearCache,
                         at |-> now, queried |-> ~hit,
                         returned |-> IF hit THEN got.value
                                      ELSE IF ok THEN fresh ELSE Null,
                         exit |-> IF hit \/ ok THEN 0 ELSE 2,
                         log |-> (IF clearCache THEN <<"Clearing cache entry...">> ELSE <<>>)
                                 \o (IF hit THEN <<"Cache hit">>
                                     ELSE IF ok THEN <<"Querying", "Result cached">>
                                     ELSE <<"Querying", "Error">>),
                         everBefore |-> cstate.ever[url],
                         keptBefore |-> cstate.kept[url]],
            ever    |-> IF stored THEN [cstate.ever EXCEPT ![url] = entry] ELSE cstate.ever,
            kept    |-> IF stored THEN [kept1 EXCEPT ![url] = entry] ELSE kept1]
      /\ UNCHANGED <<tool, pc, entities, opts, outEntities, deduped, result, wires,
                     report, gstate, stderr>>

NextCache ==
  \/ Tick
  \/ \E url \in CacheUrls, noCache \in BOOLEAN, clearCache \in BOOLEAN, ok \in BOOLEAN :
       CalcRun(url, noCache, clearCache, ok)

SpecCache == InitCache /\ [][NextCache]_vars

\* A run of calculate-requirements has ended.
CalcRan == tool = "calculate-requirements" /\ cstate.last # Null

\* The last run had neither --no-cache nor --clear-cache.
PlainRun == ~cstate.last.noCache /\ ~cstate.last.clearCache

\* The last run started before the ttl of entry e had elapsed.
Fresh(e) == e # Null /\ cstate.last.at - e.cachedAt < e.ttl

\* C20 as stated: a run without --no-cache and --clear-cache that starts
\* before the ttl of the entry stored last for its URL has elapsed returns
\* that entry's result without a query; a run with --no-cache queries.
C20_StoredResultServed ==
  CalcRan =>
    /\ (PlainRun /\ Fresh(cstate.last.everBefore)) =>
         /\ ~cstate.last.queried
         /\ cstate.last.returned = cstate.last.everBefore.result
    /\ cstate.last.noCache => cstate.last.queried

\* C20 amended: the same, for the entry stored last with no --clear-cache
\* run for the URL since it was stored.
C20_KeptResultServed ==
  CalcRan =>
    /\ (PlainRun /\ Fresh(cstate.last.keptBefore)) =>
         /\ ~cstate.last.queried
         /\ cstate.last.returned = cstate.last.keptBefore.result
    /\ cstate.last.noCache => cstate.last.queried

\* The second query's answer was stored, and one tick later (the last tick
\* of its ttl) a plain run for the URL returned it without a third query.
C20_Witness ==
  /\ CalcRan /\ PlainRun
  /\ cstate.last.keptBefore # Null
  /\ cstate.last.at - cstate.last.keptBefore.cachedAt = defaultTTL - 1
  /\ cstate.last.keptBefore.result = [data |-> 2]
  /\ cstate.last.returned = [data |-> 2]
  /\ ~cstate.last.queried /\ cstate.queries = 2

-----------------------------------------------------------------------------
(* The component analysis of the flow analyzer, one union call at a time.  *)
(* gstate holds beltMap, parent, the position (i, j) of the two nested     *)
(* loops over beltMap.values() and neigh, and, once they are built, comps  *)
(* and the roots of the supply and drain components.                       *)

\* Tiles (0..MaxGX) x (0..MaxGY) a belt may lie on, and how many belts a
\* blueprint holds at most.
MaxGX == 2

MaxGY == 1

MaxBelts == 5

GridTiles == (0..MaxGX) \X (0..MaxGY)

\* An entity of one tile centred on tile t.
OnTile(name, t, direction) ==
  [name |-> name, x |-> Tiles(t[1]) + 2, y |-> Tiles(t[2]) + 2, direction |-> direction]

\* Orders in which a blueprint file may list its belts.
ListOrders == {"rows", "columns", "reversed"}

ListRank(order, t) ==
  CASE order = "rows" -> t[2] * (MaxGX + 1) + t[1]
    [] order = "columns" -> t[1] * (MaxGY + 1) + t[2]
    [] OTHER -> 0 - (t[2] * (MaxGX + 1) + t[1])

RECURSIVE BeltList(_, _)
BeltList(S, order) ==
  IF S = {} THEN <<>>
  ELSE LET t == CHOOSE t \in S : \A u \in S : ListRank(order, t) <= ListRank(order, u)
       IN  <<OnTile("transport-belt", t, 4)>> \o BeltList(S \ {t}, order)

GridBlueprints ==
  {BeltList(S, order) :
     S \in {T \in SUBSET GridTiles : Cardinality(T) \in 1..MaxBelts}, order \in ListOrders}

\* A 2 x 2 furnace on tiles 1..2 x 1..2, an inserter on one of the eight
\* tiles along its sides, and a belt on the inserter's far side.
SideTiles ==
  { << <<0, 1>>, <<-1, 1>> >>, << <<0, 2>>, <<-1, 2>> >>,
    << <<3, 1>>, <<4, 1>> >>,  << <<3, 2>>, <<4, 2>> >>,
    << <<1, 0>>, <<1, -1>> >>, << <<2, 0>>, <<2, -1>> >>,
    << <<1, 3>>, <<1, 4>> >>,  << <<2, 3>>, <<2, 4>> >> }

SupplyBlueprints ==
  { << OnTile("transport-belt", s[2], 4),
       OnTile("inserter", s[1], d),
       [name |-> "stone-furnace", x |-> Tiles(2), y |-> Tiles(2), direction |-> NoDir] >> :
      s \in SideTiles, d \in {NoDir, 0, 4, 8, 12} }

InitUnion ==
  /\ tool \in FlowTools
  /\ pc = "union"
  /\ opts = Idle
  /\ entities \in GridBlueprints \cup SupplyBlueprints
  /\ gstate = [map |-> beltMap(entities),
               parent |-> [k \in MapKeys(beltMap(entities)) |-> k],
               i |-> 1, j |-> 1, unions |-> 0,
               comps |-> <<>>, inputCompRoots |-> <<>>, outputCompRoots |-> <<>>]
  /\ outEntities = <<>> /\ deduped = <<>> /\ result = <<>> /\ wires = <<>>
  /\ report = Idle /\ stderr = <<>> /\ cstate = Idle

\* One pass of "for (const nk of neigh) if (beltMap.has(nk)) union(k, nk)".
UnionStep ==
  /\ pc = "union" /\ gstate.i <= Len(gstate.map)
  /\ gstate' =
       [gstate EXCEPT
          !.parent = IF Neighbours(gstate.map[gstate.i].key)[gstate.j] \in MapKeys(gstate.map)
                     THEN union(@, gstate.map[gstate.i].key,
                                Neighbours(gstate.map[gstate.i].key)[gstate.j])
                     ELSE @,
          !.unions = IF Neighbours(gstate.map[gstate.i].key)[gstate.j] \in MapKeys(gstate.map)
                     THEN @ + 1 ELSE @,
          !.i = IF gstate.j = 4 THEN @ + 1 ELSE @,
          !.j = IF gstate.j = 4 THEN 1 ELSE @ + 1]
  /\ UNCHANGED <<tool, pc, entities, opts, outEntities, deduped, result, wires, report,
                 stderr, cstate>>

\* info.keys.push(key); comps.set(root, info): comps as the sequence of its
\* entries [root, keys].
CompsPush(comps, root, key) ==
  IF \E n \in DOMAIN comps : comps[n].root = root
  THEN [n \in DOMAIN comps |->
          IF comps[n].root = root
          THEN [root |-> root, keys |-> Append(comps[n].keys, key)]
          ELSE comps[n]]
  ELSE Append(comps, [root |-> root, keys |-> <<key>>])

RECURSIVE CompsFrom(_, _, _, _)
\* main, the loop over beltMap.keys() that fills comps; find compresses the
\* paths it walks.
CompsFrom(map, parent, i, comps) ==
  IF i > Len(map) THEN [comps |-> comps, parent |-> parent]
  ELSE CompsFrom(map, Compress(parent, map[i].key), i + 1,
                 CompsPush(comps, find(parent, map[i].key), map[i].key))

\* main, from the end of the union loop to the end of the loop over comps.
CollectComps ==
  /\ pc = "union" /\ gstate.i > Len(gstate.map)
  /\ gstate' = [gstate EXCEPT
                  !.comps = CompsFrom(gstate.map, gstate.parent, 1, <<>>).comps,
                  !.parent = CompsFrom(gstate.map, gstate.parent, 1, <<>>).parent]
  /\ pc' = "comps"
  /\ UNCHANGED <<tool, entities, opts, outEntities, deduped, result, wires, report,
                 stderr, cstate>>

\* main of the newer script, the loop over the inserters.
ClassifyComps ==
  /\ pc = "comps" /\ tool = "blueprint-flow"
  /\ gstate' = [gstate EXCEPT
                  !.inputCompRoots = InserterRoots(entities, gstate.map, gstate.parent, "input"),
                  !.outputCompRoots = InserterRoots(entities, gstate.map, gstate.parent, "output")]
  /\ pc' = "classified"
  /\ UNCHANGED <<tool, entities, opts, outEntities, deduped, result, wires, report,
                 stderr, cstate>>

NextUnion ==
  \/ UnionStep
  \/ CollectComps
  \/ ClassifyComps

SpecUnion == InitUnion /\ [][NextUnion]_vars

-----------------------------------------------------------------------------
(* Properties of the component analysis.                                   *)

CompsBuilt == pc \in {"comps", "classified"}

\* The grid positions that hold a transport entity.
BeltPositions == {posKey(entities[i]) : i \in {n \in DOMAIN entities : IsBelt(entities[n])}}

RECURSIVE LinkedTo(_, _)
\* The positions of `keys` that a chain of 4-neighbour steps through `keys`
\* links to a position of `seen`.
LinkedTo(keys, seen) ==
  LET more == {k \in keys \ seen :
                 \E s \in seen : Abs(k[1] - s[1]) + Abs(k[2] - s[2]) = 1}
  IN  IF more = {} THEN seen ELSE LinkedTo(keys, seen \cup more)

\* C21: every occupied transport position lies in exactly one component, and
\* the members of that component are exactly the positions that a chain of
\* 4-neighbour-adjacent transport positions links to it.
C21_ComponentsAreConnectedClasses ==
  CompsBuilt =>
    \A a \in BeltPositions :
      /\ Cardinality({n \in DOMAIN gstate.comps : a \in Range(gstate.comps[n].keys)}) = 1
      /\ \A n \in DOMAIN gstate.comps :
           a \in Range(gstate.comps[n].keys) =>
             /\ Range(gstate.comps[n].keys) = LinkedTo(BeltPositions, {a})
             /\ Len(gstate.comps[n].keys) = Cardinality(Range(gstate.comps[n].keys))

\* Five belts in a U, listed row by row: the two arms are joined into one
\* component only when the last belt of the bottom row is reached.
C21_Witness ==
  /\ CompsBuilt
  /\ Len(entities) = 5
  /\ [i \in 1..5 |-> posKey(entities[i])]
       = << <<1, 1>>, <<3, 1>>, <<1, 2>>, <<2, 2>>, <<3, 2>> >>
  /\ Len(gstate.comps) = 1
  /\ Len(gstate.comps[1].keys) = 5

\* Two belts apart from each other were analysed as two components.
C21_WitnessApart ==
  /\ CompsBuilt
  /\ BeltPositions = { <<1, 1>>, <<3, 1>> }
  /\ Len(gstate.comps) = 2

RECURSIVE Walk(_, _, _)
\* The key reached from a by following parent n times.
Walk(parent, a, n) == IF n = 0 THEN a ELSE Walk(parent, parent[a], n - 1)

\* C30: after every union call the parent map sends every key to a key, and
\* following it from any key reaches, within as many steps as there are keys,
\* a key that is its own parent; so find ends there and returns a root.
C30_ParentMapAcyclic ==
  pc \in {"union", "comps", "classified"} =>
    LET keys == DOMAIN gstate.parent
    IN  /\ keys = MapKeys(gstate.map)
        /\ \A a \in keys : gstate.parent[a] \in keys
        /\ \A a \in keys :
             LET r == Walk(gstate.parent, a, Cardinality(keys))
             IN  /\ gstate.parent[r] = r
                 /\ find(gstate.parent, a) = r

\* The union loop is under way, two trees have been joined at their roots,
\* and some key is two steps away from its root.
C30_Witness ==
  /\ pc = "union" /\ gstate.unions >= 4
  /\ \E a \in DOMAIN gstate.parent :
       /\ gstate.parent[a] # a
       /\ gstate.parent[gstate.parent[a]] # gstate.parent[a]

\* The tile an entity of one tile lies on.
TileOf(e) == <<FloorTile(e.x), FloorTile(e.y)>>

\* The tiles a producer covers, by its size in SIZE_MAP.
ProducerTiles ==
  UNION { (FloorTile(entities[i].x - 2 * SIZE_MAP(entities[i].name)[1])
             .. CeilTile(entities[i].x + 2 * SIZE_MAP(entities[i].name)[1]) - 1)
          \X (FloorTile(entities[i].y - 2 * SIZE_MAP(entities[i].name)[2])
                .. CeilTile(entities[i].y + 2 * SIZE_MAP(entities[i].name)[2]) - 1) :
          i \in {n \in DOMAIN entities : entities[n].name \in furnaceNames} }

\* The tiles of the members of a component.
MemberTiles(comp) ==
  {TileOf(entities[i]) :
     i \in {n \in DOMAIN entities :
              IsBelt(entities[n]) /\ posKey(entities[n]) \in Range(comp.keys)}}

\* Some oriented transfer entity picks up on a tile of `from` and drops on a
\* tile of `to`.
Transfers(from, to) ==
  \E i \in DOMAIN entities :
    /\ entities[i].name = "inserter" /\ entities[i].direction # NoDir
    /\ LET v == dirStepToVec(DirStep(entities[i].direction))
           t == TileOf(entities[i])
       IN  /\ <<t[1] - v.x, t[2] - v.y>> \in from
           /\ <<t[1] + v.x, t[2] + v.y>> \in to

\* C22: a component is a supply exactly when an oriented transfer entity
\* picks up on one of its members and drops on a tile covered by a producer,
\* and a drain exactly when one picks up on a tile covered by a producer and
\* drops on one of its members.
C22_SupplyDrainByCoveredTile ==
  pc = "classified" =>
    \A n \in DOMAIN gstate.comps :
      /\ (gstate.comps[n].root \in Range(gstate.inputCompRoots))
           <=> Transfers(MemberTiles(gstate.comps[n]), ProducerTiles)
      /\ (gstate.comps[n].root \in Range(gstate.outputCompRoots))
           <=> Transfers(ProducerTiles, MemberTiles(gstate.comps[n]))

\* The transfers into and out of the producer's top-left tile are classified.
SupplyAtTopLeftClassified ==
  (pc = "classified" /\ Len(gstate.comps) = 1 /\ Len(entities) = 3
     /\ entities[2].name = "inserter"
     /\ TileOf(entities[2]) \in { <<0, 1>>, <<1, 0>> }) =>
    /\ (gstate.inputCompRoots # <<>>)
         <=> Transfers(MemberTiles(gstate.comps[1]), ProducerTiles)
    /\ (gstate.outputCompRoots # <<>>)
         <=> Transfers(ProducerTiles, MemberTiles(gstate.comps[1]))

\* The entity list direction repair starts from.
RepairInput == IF tool = "transform-blueprint" THEN outEntities ELSE deduped

\* Entity i left direction repair as it came in.
Untouched(i) == result[i] = RepairInput[i]

\* C23: direction repair leaves every entity that is not a transfer entity,
\* and every transfer entity that has an orientation, exactly as it was.
C23_RepairOnlyFillsMissing ==
  (AnyComposeDone \/ TransformDone) =>
    /\ Len(result) = Len(RepairInput)
    /\ \A i \in DOMAIN result :
         (RepairInput[i].name # "inserter" \/ RepairInput[i].direction # NoDir)
           => Untouched(i)

\* The transformer's repair skips the transfer entities that have an
\* orientation.
TransformerRepairOnlyFillsMissing ==
  TransformDone =>
    /\ Len(result) = Len(RepairInput)
    /\ \A i \in DOMAIN result :
         (RepairInput[i].name # "inserter" \/ RepairInput[i].direction # NoDir)
           => Untouched(i)

\* In every program direction repair changes nothing but the orientation of
\* transfer entities.
RepairChangesOnlyInserterDirection ==
  (AnyComposeDone \/ TransformDone) =>
    /\ Len(result) = Len(RepairInput)
    /\ \A i \in DOMAIN result :
         /\ RepairInput[i].name # "inserter" => Untouched(i)
         /\ [result[i] EXCEPT !.direction = NoDir]
              = [RepairInput[i] EXCEPT !.direction = NoDir]

-----------------------------------------------------------------------------
(* Direction repair on its own: a blueprint of one inserter and one        *)
(* producer, composed as a single cell or transformed.                     *)

\* The producer is centred up to MaxOff quarter tiles from the inserter on
\* each axis (the adjacency range ends at 1.1 tiles).
MaxOff == 5

Offsets == {o \in (-MaxOff..MaxOff) \X (-MaxOff..MaxOff) : o # <<0, 0>>}

PairUnits ==
  LET pairs == { << [name |-> "inserter", x |-> 10, y |-> 10, direction |-> d],
                    [name |-> p, x |-> 10 + o[1], y |-> 10 + o[2], direction |-> NoDir] >> :
                   d \in {NoDir, 4}, p \in {"stone-furnace", "assembling-machine-1"},
                   o \in Offsets }
  IN  pairs \cup {Reverse(u) : u \in pairs}

InitRepair ==
  /\ tool \in {"compose-blueprint", "scripts/compose-blueprint", "transform-blueprint"}
  /\ pc = "start"
  /\ entities \in PairUnits
  /\ opts \in IF tool = "transform-blueprint"
              THEN {o \in TransformerOpts : ~o.flipX /\ ~o.flipY /\ o.rot \in {0, 1}}
              ELSE {o \in ComposerOpts :
                      /\ o.rows = 1 /\ o.cols = 1 /\ o.spacingX = Tiles(1)
                      /\ ~o.flipX /\ ~o.shareX /\ o.rot \in {0, 1}}
  /\ outEntities = <<>> /\ deduped = <<>> /\ result = <<>> /\ wires = <<>>
  /\ report = Idle /\ gstate = Idle /\ stderr = <<>> /\ cstate = Idle

NextRepair ==
  \/ ComposeRun
  \/ ComposeRunLegacy
  \/ TransformRun

SpecRepair == InitRepair /\ [][NextRepair]_vars

\* Direction repair set the orientation of entity i: it is an inserter with
\* a producer in range, and the transformer only fills a missing orientation.
RepairSet(i) ==
  /\ RepairInput[i].name = "inserter"
  /\ FindProducer(RepairInput, RepairInput[i]) # 0
  /\ (tool = "transform-blueprint" => RepairInput[i].direction = NoDir)

Sign(n) == IF n > 0 THEN 1 ELSE IF n < 0 THEN -1 ELSE 0

\* The unit vector v points from `from` towards `to` along one of the axes.
PointsToward(v, from, to) ==
  \/ v.y = 0 /\ v.x # 0 /\ v.x = Sign(to.x - from.x)
  \/ v.x = 0 /\ v.y # 0 /\ v.y = Sign(to.y - from.y)

\* C24: an orientation set by direction repair points from the transfer
\* entity towards the producer that was chosen for it, wherever in the
\* adjacency range that producer is.
C24_RepairedPointsAtProducer ==
  (AnyComposeDone \/ TransformDone) =>
    \A i \in DOMAIN result :
      RepairSet(i) =>
        PointsToward(dirStepToVec(DirStep(result[i].direction)), RepairInput[i],
                     RepairInput[FindProducer(RepairInput, RepairInput[i])])

\* With the producer a whole tile away along one axis and level on the
\* other, the repaired orientation points at it.
RepairedPointsAtLevelProducer ==
  (AnyComposeDone \/ TransformDone) =>
    \A i \in DOMAIN result :
      (RepairSet(i) /\
         LET f == RepairInput[FindProducer(RepairInput, RepairInput[i])]
         IN  \/ Abs(f.x - RepairInput[i].x) = Tiles(1) /\ f.y = RepairInput[i].y
             \/ Abs(f.y - RepairInput[i].y) = Tiles(1) /\ f.x = RepairInput[i].x)
        => PointsToward(dirStepToVec(DirStep(result[i].direction)), RepairInput[i],
                        RepairInput[FindProducer(RepairInput, RepairInput[i])])

\* The poles of the output.
PolesOut == {p \in DOMAIN result : IsPole(result[p].name)}

\* q is in line with p on one axis, further along it, within 7 tiles, with no
\* pole of that line strictly between the two.
NearestAlong(p, q) ==
  \/ /\ result[q].y = result[p].y
     /\ result[q].x > result[p].x /\ result[q].x - result[p].x <= Tiles(7)
     /\ ~\E m \in PolesOut : /\ result[m].y = result[p].y
                             /\ result[m].x > result[p].x /\ result[m].x < result[q].x
  \/ /\ result[q].x = result[p].x
     /\ result[q].y > result[p].y /\ result[q].y - result[p].y <= Tiles(7)
     /\ ~\E m \in PolesOut : /\ result[m].x = result[p].x
                             /\ result[m].y > result[p].y /\ result[m].y < result[q].y

NearestPairs == {pq \in SUBSET PolesOut : \E p, q \in pq : pq = {p, q} /\ NearestAlong(p, q)}

\* C25: the pairs of poles joined by the wiring output are exactly the pairs
\* of a pole and the nearest pole to its right in its row, or below it in its
\* column, within 7 tiles.
C25_WiresAreNearestPairs ==
  AnyComposeDone =>
    {WirePair(WireNumbers[k]) : k \in DOMAIN WireNumbers} = NearestPairs

\* The composer of tools/compose-blueprint wires exactly the nearest pairs.
ToolsWiresAreNearestPairs ==
  ComposeDone =>
    {WirePair(WireNumbers[k]) : k \in DOMAIN WireNumbers} = NearestPairs

\* A single operation that only rotates.
RotationOnly(op) ==
  /\ op.kind \in {"rotate", "transform"}
  /\ ~op.flipX /\ ~op.flipY /\ op.tx = 0 /\ op.ty = 0

\* The programs in `variants` and the footprint computations in `footprints`
\* turn the entity gstate.orig by the steps of the one operation made as the
\* program of this run did.
SameRotation(variants, footprints) ==
  /\ \A v \in variants :
       GeomApply(v, gstate.orig, [gstate.ops[1] EXCEPT !.kind = "transform"]) = gstate.cur
  /\ "tools/compose-blueprint" \in footprints =>
       rotatePos(gstate.orig.x, gstate.orig.y, gstate.ops[1].rot)
         = [x |-> gstate.cur.x, y |-> gstate.cur.y]
  /\ "scripts/compose-blueprint" \in footprints =>
       rotatePosLegacy(gstate.orig.x, gstate.orig.y, gstate.ops[1].rot)
         = [x |-> gstate.cur.x, y |-> gstate.cur.y]

RotatedOnce ==
  /\ tool = "geometry" /\ Len(gstate.ops) = 1 /\ RotationOnly(gstate.ops[1])
  /\ OnGrid(gstate.orig) /\ gstate.orig.direction \in {0, 4, 8, 12, NoDir}

\* C26: a point and an orientation turned by some number of steps come out
\* the same in both composers, in the transformer and in the footprint
\* computation of either composer.
C26_SameRotationEverywhere ==
  RotatedOnce =>
    SameRotation(Variants, {"tools/compose-blueprint", "scripts/compose-blueprint"})

\* The composer of tools/compose-blueprint, its footprint computation and the
\* transformer turn alike.
SameRotationOutsideOldComposer ==
  (RotatedOnce /\ gstate.variant # "scripts/compose-blueprint") =>
    SameRotation(Variants \ {"scripts/compose-blueprint"}, {"tools/compose-blueprint"})

-----------------------------------------------------------------------------
(* The grid of the composers for units of more than one row of tiles, and  *)
(* with the per-row overrides --flip-row and --rotate-row.                 *)

\* An entity by name, centre in quarter tiles and direction field.
At(name, x, y, direction) == [name |-> name, x |-> x, y |-> y, direction |-> direction]

\* Units of one-tile entities and of entities of several tiles, with and
\* without a direction field, at and away from the origin.
CellUnits ==
  { << At("transport-belt", 2, 2, 4), At("inserter", 2, 6, 8) >>,
    << At("transport-belt", 2, 2, 4), At("inserter", 6, 2, NoDir) >>,
    << At("transport-belt", 10, 6, 0), At("transport-belt", 10, 10, 0),
       At("inserter", 14, 10, 12) >>,
    << At("stone-furnace", 4, 4, NoDir), At("inserter", 10, 2, 12),
       At("transport-belt", 14, 2, 8) >>,
    << At("boiler", 6, 4, 0) >>,
    << At("boiler", 6, 4, NoDir) >>,
    << At("steam-engine", 10, 6, 4), At("transport-belt", 2, 14, 4) >>,
    << At("small-electric-pole", -2, -6, NoDir) >> }

\* The per-row overrides: flipRows and rotateRows after the argv loop.
RowOverrides ==
  { [flipRows |-> {}, rotateRows |-> <<>>],
    [flipRows |-> {0}, rotateRows |-> <<>>],
    [flipRows |-> {1}, rotateRows |-> <<>>],
    [flipRows |-> {}, rotateRows |-> [r \in {0} |-> 1]],
    [flipRows |-> {}, rotateRows |-> [r \in {1} |-> 3]],
    [flipRows |-> {0}, rotateRows |-> [r \in {0} |-> 2]] }

\* scripts/compose-blueprint.ts has no --flip-row and no --rotate-row.
CellOpts(t) ==
  { [cols |-> g[2], rows |-> g[1],
     spacingX |-> s, spacingY |-> s, rot |-> rot,
     flipX |-> f[1], flipY |-> f[2], normalize |-> TRUE,
     shareX |-> FALSE, shareY |-> FALSE, rotateBottom |-> rb,
     flipRows |-> ov.flipRows, rotateRows |-> ov.rotateRows] :
    g \in Grids, s \in {0, Tiles(1)}, rot \in 0..3,
    f \in { <<FALSE, FALSE>>, <<TRUE, FALSE>>, <<FALSE, TRUE>> },
    rb \in BOOLEAN,
    ov \in IF t = "compose-blueprint" THEN RowOverrides
           ELSE {[flipRows |-> {}, rotateRows |-> <<>>]} }

InitCells ==
  /\ tool \in {"compose-blueprint", "scripts/compose-blueprint"}
  /\ pc = "start"
  /\ entities \in CellUnits
  /\ opts \in CellOpts(tool)
  /\ outEntities = <<>> /\ deduped = <<>> /\ result = <<>> /\ wires = <<>>
  /\ report = Idle /\ gstate = Idle /\ stderr = <<>> /\ cstate = Idle

NextCells ==
  \/ ComposeRun
  \/ ComposeRunLegacy

SpecCells == InitCells /\ [][NextCells]_vars

\* The entities pushed to outEntities for cell k (cells count from 0, row by
\* row).
CellEntities(k) == SubSeq(outEntities, k * Len(entities) + 1, (k + 1) * Len(entities))

CellIndexes == 0 .. (Len(outEntities) \div Len(entities)) - 1

\* The base footprint of the run of tools/compose-blueprint.
BaseFoot ==
  footprintBounds(Normalize(entities, opts.normalize), opts.rot, opts.flipX, opts.flipY)

\* The footprint of cell k of the output is where the grid puts it.
CellOnGrid(k, base) ==
  LET foot == footprintBounds(CellEntities(k), 0, FALSE, FALSE)
  IN  /\ foot.xStart = base.xStart
                         + (k % opts.cols) * TileStep(base.width, opts.spacingX, opts.shareX)
      /\ foot.yStart = base.yStart
                         + (k \div opts.cols) * TileStep(base.height, opts.spacingY, opts.shareY)

\* C27: the footprint of the entities written for grid cell (r, c), computed
\* from their positions and orientations in the output, starts at the base
\* footprint's origin plus (c * stepX, r * stepY).
C27_CellFootprintOnGrid ==
  ComposeDone => \A k \in CellIndexes : CellOnGrid(k, BaseFoot)

\* Every entity of the unit covers a square or has a direction field.
SquareOrOriented ==
  \A i \in DOMAIN entities :
    \/ SIZE_MAP(entities[i].name)[1] = SIZE_MAP(entities[i].name)[2]
    \/ entities[i].direction # NoDir

\* The cells of such units are where the grid puts them.
OrientedCellFootprintOnGrid ==
  (ComposeDone /\ SquareOrOriented) => \A k \in CellIndexes : CellOnGrid(k, BaseFoot)

\* The tiles an entity of the output covers, by its size and orientation.
CoveredTiles(e) ==
  LET m == EntityExtent(e, 0, FALSE, FALSE)
  IN  (FloorTile(m[1]) .. CeilTile(m[2]) - 1) \X (FloorTile(m[3]) .. CeilTile(m[4]) - 1)

CellTiles(k) == UNION {CoveredTiles(CellEntities(k)[i]) : i \in 1..Len(entities)}

CellsApart == \A k1, k2 \in CellIndexes : k1 # k2 => CellTiles(k1) \cap CellTiles(k2) = {}

\* C28: with spacings of zero or more and no edge sharing, the entities of
\* two different grid cells never cover the same tile.
C28_CellsCoverDisjointTiles ==
  (AnyComposeDone /\ opts.spacingX >= 0 /\ opts.spacingY >= 0
     /\ ~opts.shareX /\ ~opts.shareY) => CellsApart

\* No row is turned by a quarter turn against the base rotation.
NoQuarterTurnOverride ==
  \A r \in DOMAIN opts.rotateRows : opts.rotateRows[r] % 2 = 0

\* The cells of units of square or oriented entities are apart as long as no
\* row is turned by a quarter turn on its own.
OrientedCellsCoverDisjointTiles ==
  (AnyComposeDone /\ SquareOrOriented /\ NoQuarterTurnOverride) => CellsApart

-----------------------------------------------------------------------------
(* Blueprint catalog service: the in-memory index under addBlueprint,      *)
(* updateBlueprint and deleteBlueprint.  gstate holds byId as the sequence *)
(* of its values in insertion order, byItem and byInput as functions from  *)
(* a key to its array (the empty array for a key never set), and the       *)
(* number of calls made.                                                   *)

\* Calls made to the service in one behaviour.
MaxCalls == 3

BlueprintIds == {"b1", "b2"}

BlueprintNames == {"smelter", "smelter v2"}

OutputItems == {"iron-plate", "copper-plate"}

InputResources == {"iron-ore", "coal"}

\* The resources of blueprint.inputs, one per input; two inputs at different
\* positions may take the same resource.
InputLists ==
  { <<>>, <<"iron-ore">>, <<"iron-ore", "coal">>, <<"iron-ore", "iron-ore">> }

\* The blueprints that pass validateBlueprint, by the fields the index uses.
Blueprints ==
  { [id |-> i, name |-> n, item |-> it, inputs |-> ins] :
      i \in BlueprintIds, n \in BlueprintNames, it \in OutputItems, ins \in InputLists }

\* The argument `updates` of updateBlueprint: a name, a primaryOutput, or both.
Updates ==
  { [name |-> n] : n \in BlueprintNames }
    \cup { [item |-> it] : it \in OutputItems }
    \cup { [name |-> n, item |-> it] : n \in BlueprintNames, it \in OutputItems }

\* buildIndex with no metadata file on disk.
InitCatalog ==
  /\ tool = "catalog-service"
  /\ pc = "ready"
  /\ gstate = [byId |-> <<>>,
               byItem |-> [it \in OutputItems |-> <<>>],
               byInput |-> [res \in InputResources |-> <<>>],
               updates |-> 0, calls |-> 0]
  /\ opts = Idle /\ entities = <<>>
  /\ outEntities = <<>> /\ deduped = <<>> /\ result = <<>> /\ wires = <<>>
  /\ report = Idle /\ stderr = <<>> /\ cstate = Idle

\* index.byId.has(id)
HasId(byId, id) == \E k \in DOMAIN byId : byId[k].id = id

\* index.byId.get(id)
GetById(byId, id) == byId[CHOOSE k \in DOMAIN byId : byId[k].id = id]

\* index.byId.set(id, bp): a new key goes last, a known key keeps its place.
SetById(byId, bp) ==
  IF HasId(byId, bp.id)
  THEN [k \in DOMAIN byId |-> IF byId[k].id = bp.id THEN bp ELSE byId[k]]
  ELSE Append(byId, bp)

\* index.byId.delete(id)
DeleteById(byId, id) == SelectSeq(byId, LAMBDA bp : bp.id # id)

\* findIndex(bp => bp.id === id) and splice(idx, 1): the array without its
\* first element of that id.
SpliceFirst(arr, id) ==
  IF \E k \in DOMAIN arr : arr[k].id = id
  THEN LET idx == SetMin({k \in DOMAIN arr : arr[k].id = id})
       IN  SubSeq(arr, 1, idx - 1) \o SubSeq(arr, idx + 1, Len(arr))
  ELSE arr

\* findIndex and "blueprints[idx] = updated".
ReplaceFirst(arr, id, updated) ==
  IF \E k \in DOMAIN arr : arr[k].id = id
  THEN [arr EXCEPT ![SetMin({k \in DOMAIN arr : arr[k].id = id})] = updated]
  ELSE arr

RECURSIVE PushInputs(_, _, _)
\* The loop over blueprint.inputs of addBlueprint: push under input.resource.
PushInputs(byInput, bp, i) ==
  IF i > Len(bp.inputs) THEN byInput
  ELSE PushInputs([byInput EXCEPT ![bp.inputs[i]] = Append(@, bp)], bp, i + 1)

RECURSIVE SpliceInputs(_, _, _)
\* The loop over blueprint.inputs of deleteBlueprint.
SpliceInputs(byInput, bp, i) ==
  IF i > Len(bp.inputs) THEN byInput
  ELSE SpliceInputs([byInput EXCEPT ![bp.inputs[i]] = SpliceFirst(@, bp.id)], bp, i + 1)

\* addBlueprint of a blueprint whose id is not in the catalog.
addBlueprint(bp) ==
  /\ tool = "catalog-service" /\ gstate.calls < MaxCalls
  /\ ~HasId(gstate.byId, bp.id)
  /\ gstate' = [gstate EXCEPT
                  !.byId = SetById(@, bp),
                  !.byItem = [@ EXCEPT ![bp.item] = Append(@, bp)],
                  !.byInput = PushInputs(@, bp, 1),
                  !.calls = @ + 1]
  /\ UNCHANGED <<tool, pc, entities, opts, outEntities, deduped, result, wires, report,
                 stderr, cstate>>

\* { ...blueprint, ...updates }
Merged(blueprint, updates) ==
  [blueprint EXCEPT
     !.name = IF "name" \in DOMAIN updates THEN updates.name ELSE @,
     !.item = IF "item" \in DOMAIN updates THEN updates.item ELSE @]

\* The item index after updateBlueprint.
UpdatedByItem(byItem, blueprint, updates) ==
  IF "item" \in DOMAIN updates
  THEN [[byItem EXCEPT ![blueprint.item] = SpliceFirst(@, blueprint.id)]
          EXCEPT ![updates.item] = Append(@, Merged(blueprint, updates))]
  ELSE [byItem EXCEPT ![blueprint.item] =
          ReplaceFirst(@, blueprint.id, Merged(blueprint, updates))]

\* updateBlueprint of a blueprint of the catalog.
updateBlueprint(id, updates) ==
  /\ tool = "catalog-service" /\ gstate.calls < MaxCalls
  /\ HasId(gstate.byId, id)
  /\ gstate' = [gstate EXCEPT
                  !.byId = SetById(@, Merged(GetById(gstate.byId, id), updates)),
                  !.byItem = UpdatedByItem(@, GetById(gstate.byId, id), updates),
                  !.updates = @ + 1,
                  !.calls = @ + 1]
  /\ UNCHANGED <<tool, pc, entities, opts, outEntities, deduped, result, wires, report,
                 stderr, cstate>>

\* deleteBlueprint of a blueprint of the catalog.
deleteBlueprint(id) ==
  /\ tool = "catalog-service" /\ gstate.calls < MaxCalls
  /\ HasId(gstate.byId, id)
  /\ gstate' = [gstate EXCEPT
                  !.byId = DeleteById(@, id),
                  !.byItem = [@ EXCEPT ![GetById(gstate.byId, id).item] = SpliceFirst(@, id)],
                  !.byInput = SpliceInputs(@, GetById(gstate.byId, id), 1),
                  !.calls = @ + 1]
  /\ UNCHANGED <<tool, pc, entities, opts, outEntities, deduped, result, wires, report,
                 stderr, cstate>>

CatalogAdd == \E bp \in Blueprints : addBlueprint(bp)

CatalogUpdate == \E id \in BlueprintIds, updates \in Updates : updateBlueprint(id, updates)

CatalogDelete == \E id \in BlueprintIds : deleteBlueprint(id)

NextCatalog ==
  \/ CatalogAdd
  \/ CatalogUpdate
  \/ CatalogDelete

SpecCatalog == InitCatalog /\ [][NextCatalog]_vars

\* listBlueprints
listBlueprints == gstate.byId

\* searchBlueprints for a criteria record with item, with input, or empty.
searchBlueprints(criteria) ==
  LET start == IF "item" \in DOMAIN criteria THEN gstate.byItem[criteria.item]
               ELSE IF "input" \in DOMAIN criteria THEN gstate.byInput[criteria.input]
               ELSE gstate.byId
      Keep(bp) == /\ "item" \in DOMAIN criteria => bp.item = criteria.item
                  /\ "input" \in DOMAIN criteria =>
                       \E k \in DOMAIN bp.inputs : bp.inputs[k] = criteria.input
  IN  SelectSeq(start, Keep)

\* The arrays hold the same records, each once.
SameRecordsOnce(arr, expected) ==
  /\ Range(arr) = Range(expected)
  /\ Len(arr) = Cardinality(Range(arr))
  /\ Len(expected) = Cardinality(Range(expected))

TakesInput(bp, res) == \E k \in DOMAIN bp.inputs : bp.inputs[k] = res

ItemIndexExact ==
  \A it \in OutputItems :
    /\ SameRecordsOnce(gstate.byItem[it], SelectSeq(listBlueprints, LAMBDA bp : bp.item = it))
    /\ SameRecordsOnce(searchBlueprints([item |-> it]),
                       SelectSeq(listBlueprints, LAMBDA bp : bp.item = it))

InputIndexExact ==
  \A res \in InputResources :
    /\ SameRecordsOnce(gstate.byInput[res],
                       SelectSeq(listBlueprints, LAMBDA bp : TakesInput(bp, res)))
    /\ SameRecordsOnce(searchBlueprints([input |-> res]),
                       SelectSeq(listBlueprints, LAMBDA bp : TakesInput(bp, res)))

\* C29: after any successful calls the item index and the input index hold
\* exactly the records of the listing, each record once under its item and
\* once under each of its input resources, and a search by item or by input
\* returns what filtering the listing returns.
C29_IndexesMatchListing ==
  tool = "catalog-service" => (ItemIndexExact /\ InputIndexExact)

\* The item index is exact after any calls.
ItemIndexMatchesListing == tool = "catalog-service" => ItemIndexExact

\* No blueprint of the catalog names a resource in two of its inputs.
InputsDistinct ==
  \A k \in DOMAIN gstate.byId :
    Len(gstate.byId[k].inputs) = Cardinality(Range(gstate.byId[k].inputs))

\* Before the first update, and with no resource named twice by a blueprint
\* of the catalog, the input index is exact.
InputIndexMatchesListingBeforeUpdate ==
  (tool = "catalog-service" /\ gstate.updates = 0 /\ InputsDistinct) => InputIndexExact

====
